---------------------------- MODULE Spec2Model ----------------------------
(***************************************************************************)
(* Rule evaluation, composite derivation and report aggregation of the     *)
(* pharmds drug-interaction reasoner (rules/engine.py,                     *)
(* rules/composite_rules.py, reasoning/combine.py).                        *)
(*                                                                         *)
(* Python strings whose characters matter (lexical comparison, upper(),    *)
(* lower(), startswith()) are TLA+ strings spelled out character by        *)
(* character through Chars; the string operations work on those spellings. *)
(***************************************************************************)
EXTENDS Integers, Sequences, FiniteSets, TLC

VARIABLES
    facts,       \* core.models.Facts: the read-only snapshot
    rules,       \* the loaded rule list handed to evaluate_all
    drug_ids,    \* the resolved drug ids handed to evaluate_all
    hits,        \* the current list of RuleHit
    reports,     \* the list of PairReport built from hits
    pc,          \* position of the caller
    derivation,  \* the derivation function the caller applies
    prev_hits,   \* hits as they were before the last derivation call
    last_op,     \* the last operation applied to hits
    prev_op,     \* the operation before that
    n_calls,     \* derivation calls made so far
    rule_files,  \* the rule definitions of the rule directory, in file-name order
    load_error,  \* the exception load_rules raised, if it raised
    rule_errors, \* the RuleErrors of the validation run, if it ran
    domain_arg,  \* the --domain argument, as its spelling
    selected,    \* the mechanism tags selected by it
    rules_all,   \* the loaded rules before the selection
    rule_mechs   \* rule_mechanisms of each rule of rules_all, as the filter saw them

vars == <<facts, rules, drug_ids, hits, reports, pc, derivation, prev_hits, last_op, prev_op,
          n_calls, rule_files, load_error, rule_errors, domain_arg, selected, rules_all,
          rule_mechs>>

\* The variables of rule loading and validation
load_vars == <<rule_files, load_error, rule_errors>>

\* The variables of the domain selection
select_vars == <<domain_arg, selected, rules_all, rule_mechs>>

-----------------------------------------------------------------------------
(* Bounds of the model *)

MaxHits == 3
MaxCalls == 2
MaxDrugIds == 3
MaxRuleFiles == 2
MaxReportHits == 3
MaxRules == 2

-----------------------------------------------------------------------------
(* Python strings *)

\* An absent inputs key, None and the empty string: every test the code makes on
\* these values (not x, isinstance(x, str) and x, x == "P-gp", startswith) gives
\* the same answer for the three.
None == ""

Chars(s) ==
    CASE s = "" -> <<>>
      [] s = "cyp" -> <<"c","y","p">>
      [] s = "ugt" -> <<"u","g","t">>
      [] s = "pgp" -> <<"p","g","p">>
      [] s = "CYP" -> <<"C","Y","P">>
      [] s = "UGT" -> <<"U","G","T">>
      [] s = "CYP3A4" -> <<"C","Y","P","3","A","4">>
      [] s = "cyp2d6" -> <<"c","y","p","2","d","6">>
      [] s = "UGT1A1" -> <<"U","G","T","1","A","1">>
      [] s = "NAT2" -> <<"N","A","T","2">>
      [] s = "P-gp" -> <<"P","-","g","p">>
      [] s = "BCRP" -> <<"B","C","R","P">>
      [] s = "OATP1B1" -> <<"O","A","T","P","1","B","1">>
      [] s = "citalopram" -> <<"c","i","t","a","l","o","p","r","a","m">>
      [] s = "clarithromycin" -> <<"c","l","a","r","i","t","h","r","o","m","y","c","i","n">>
      [] s = "digoxin" -> <<"d","i","g","o","x","i","n">>
      [] s = "quetiapine" -> <<"q","u","e","t","i","a","p","i","n","e">>
      [] s = "verapamil" -> <<"v","e","r","a","p","a","m","i","l">>
      [] s = "PD_CNS_ADDITIVE" ->
            <<"P","D","_","C","N","S","_","A","D","D","I","T","I","V","E">>
      [] s = "PD_QT_ADDITIVE" ->
            <<"P","D","_","Q","T","_","A","D","D","I","T","I","V","E">>
      [] s = "PD_QT_RISK_FLAG" ->
            <<"P","D","_","Q","T","_","R","I","S","K","_","F","L","A","G">>
      [] s = "PK_CYP3A4_STRONG_INHIB" ->
            <<"P","K","_","C","Y","P","3","A","4","_","S","T","R","O","N","G","_","I","N","H","I","B">>
      [] s = "PK_CYP3A4_INHIB_NTI" ->
            <<"P","K","_","C","Y","P","3","A","4","_","I","N","H","I","B","_","N","T","I">>
      [] s = "PK_CYP3A4_INDUC" ->
            <<"P","K","_","C","Y","P","3","A","4","_","I","N","D","U","C">>
      [] s = "PK_PGP_INHIB_DIGOXIN" ->
            <<"P","K","_","P","G","P","_","I","N","H","I","B","_","D","I","G","O","X","I","N">>
      [] s = "PK_OATP_INHIB" ->
            <<"P","K","_","O","A","T","P","_","I","N","H","I","B">>
      [] s = "PK_CYP3A4_INHIB" ->
            <<"P","K","_","C","Y","P","3","A","4","_","I","N","H","I","B">>
      [] s = "PK_UGT1A1_INHIB" ->
            <<"P","K","_","U","G","T","1","A","1","_","I","N","H","I","B">>
      [] s = "PK_PGP_INHIB" ->
            <<"P","K","_","P","G","P","_","I","N","H","I","B">>
      [] s = "PK_BCRP_INHIB" ->
            <<"P","K","_","B","C","R","P","_","I","N","H","I","B">>
      [] s = "PK_CYP2D6_INHIB" ->
            <<"P","K","_","C","Y","P","2","D","6","_","I","N","H","I","B">>
      [] s = "COMP_PK_UP_CNS_DEP" ->
            <<"C","O","M","P","_","P","K","_","U","P","_","C","N","S","_","D","E","P">>
      [] s = "PK_DUAL_MECH_INCREASE" ->
            <<"P","K","_","D","U","A","L","_","M","E","C","H","_","I","N","C","R","E","A","S","E">>
      [] s = "PK_DUAL_MECH_INCREASE_CYP_UGT" ->
            <<"P","K","_","D","U","A","L","_","M","E","C","H","_","I","N","C","R","E","A","S","E","_","C","Y","P","_","U","G","T">>
      [] s = "PK_DUAL_MECH_INCREASE_UGT_PGP" ->
            <<"P","K","_","D","U","A","L","_","M","E","C","H","_","I","N","C","R","E","A","S","E","_","U","G","T","_","P","G","P">>
      [] s = "PK_MULTI_MECH_INCREASE" ->
            <<"P","K","_","M","U","L","T","I","_","M","E","C","H","_","I","N","C","R","E","A","S","E">>
      [] s = "OATP" -> <<"O","A","T","P">>
      [] s = "OATP2B1" -> <<"O","A","T","P","2","B","1">>
      [] s = "MATE1" -> <<"M","A","T","E","1">>
      [] s = "all" -> <<"a","l","l">>
      [] s = "pk" -> <<"p","k">>
      [] s = "pd" -> <<"p","d">>
      [] s = "bcrp" -> <<"b","c","r","p">>
      [] s = "oatp" -> <<"o","a","t","p">>

UpperCase == <<"A","B","C","D","E","F","G","H","I","J","K","L","M",
               "N","O","P","Q","R","S","T","U","V","W","X","Y","Z">>
LowerCase == <<"a","b","c","d","e","f","g","h","i","j","k","l","m",
               "n","o","p","q","r","s","t","u","v","w","x","y","z">>
Digits == <<"0","1","2","3","4","5","6","7","8","9">>

IndexIn(c, alphabet) ==
    IF \E i \in DOMAIN alphabet : alphabet[i] = c
    THEN CHOOSE i \in DOMAIN alphabet : alphabet[i] = c
    ELSE 0

\* ord(c): the code point of a character
CodePoint(c) ==
    IF c = "-" THEN 45
    ELSE IF IndexIn(c, Digits) > 0 THEN 47 + IndexIn(c, Digits)
    ELSE IF IndexIn(c, UpperCase) > 0 THEN 64 + IndexIn(c, UpperCase)
    ELSE IF c = "_" THEN 95
    ELSE 96 + IndexIn(c, LowerCase)

Alphabet ==
    {"-", "_"} \cup {Digits[i] : i \in DOMAIN Digits}
        \cup {UpperCase[i] : i \in DOMAIN UpperCase}
        \cup {LowerCase[i] : i \in DOMAIN LowerCase}

OrdTable == [c \in Alphabet |-> CodePoint(c)]

Ord(c) == OrdTable[c]

\* str.upper() and str.lower(), on spellings
StrUpper(cs) ==
    [i \in DOMAIN cs |->
        IF IndexIn(cs[i], LowerCase) > 0 THEN UpperCase[IndexIn(cs[i], LowerCase)] ELSE cs[i]]

StrLower(cs) ==
    [i \in DOMAIN cs |->
        IF IndexIn(cs[i], UpperCase) > 0 THEN LowerCase[IndexIn(cs[i], UpperCase)] ELSE cs[i]]

\* str.startswith(prefix), on spellings
StartsWith(cs, prefix) ==
    /\ Len(prefix) <= Len(cs)
    /\ \A i \in DOMAIN prefix : cs[i] = prefix[i]

\* Python's s < t on strings: by code points, a proper prefix sorting first
RECURSIVE LexLess(_, _)
LexLess(cs, ct) ==
    IF ct = <<>> THEN FALSE
    ELSE IF cs = <<>> THEN TRUE
    ELSE IF Ord(Head(cs)) # Ord(Head(ct)) THEN Ord(Head(cs)) < Ord(Head(ct))
    ELSE LexLess(Tail(cs), Tail(ct))

\* The strings spelled out by Chars
KnownStrings ==
    { "", "cyp", "ugt", "pgp",
      "CYP", "UGT", "CYP3A4", "cyp2d6",
      "UGT1A1", "NAT2", "P-gp", "BCRP",
      "OATP1B1", "citalopram", "clarithromycin", "digoxin",
      "quetiapine", "verapamil", "PD_CNS_ADDITIVE", "PD_QT_ADDITIVE",
      "PD_QT_RISK_FLAG", "PK_CYP3A4_STRONG_INHIB", "PK_CYP3A4_INHIB_NTI", "PK_CYP3A4_INDUC",
      "PK_PGP_INHIB_DIGOXIN", "PK_OATP_INHIB", "PK_CYP3A4_INHIB", "PK_UGT1A1_INHIB",
      "PK_PGP_INHIB", "PK_BCRP_INHIB", "PK_CYP2D6_INHIB", "COMP_PK_UP_CNS_DEP",
      "PK_DUAL_MECH_INCREASE", "PK_DUAL_MECH_INCREASE_CYP_UGT", "PK_DUAL_MECH_INCREASE_UGT_PGP", "PK_MULTI_MECH_INCREASE",
      "OATP", "OATP2B1", "MATE1", "all",
      "pk", "pd", "bcrp", "oatp" }

\* s < t for every two of them, worked out once
StrLessTable ==
    [s \in KnownStrings |-> [t \in KnownStrings |-> LexLess(Chars(s), Chars(t))]]

StrLess(s, t) == StrLessTable[s][t]

-----------------------------------------------------------------------------
(* core/enums.py, core/constants.py *)

Severities == {"info", "caution", "major", "contraindicated"}
RuleClasses == {"info", "caution", "adjust_monitor", "avoid"}

TRANSPORTER_PGP == "P-gp"
PD_EFFECT_CNS_DEP == "CNS_depression"
PD_EFFECT_QT == "QT_prolongation"

_SEV_RANK == [info |-> 0, caution |-> 1, major |-> 2, contraindicated |-> 3]

_CLASS_RANK == [info |-> 0, caution |-> 1, adjust_monitor |-> 2, avoid |-> 3]

\* No exception raised; no validation run
NoError == [raised |-> "", file |-> 0, key |-> "", value |-> ""]
NotValidated == <<[file |-> 0, message |-> "not run", detail |-> {}]>>

-----------------------------------------------------------------------------
(* core/models.py *)

\* RuleHit.inputs: "A" and "B" always, the other keys None when absent
Inputs(a, b, enzyme_id, transporter_id, transporter_family, effect_id) ==
    [A |-> a, B |-> b, enzyme_id |-> enzyme_id, transporter_id |-> transporter_id,
     transporter_family |-> transporter_family, effect_id |-> effect_id]

\* RuleHit; tags is the set of the entries of the tags list (the code only
\* tests membership)
RuleHit(rule_id, domain, severity, rule_class, inputs, tags) ==
    [rule_id |-> rule_id, domain |-> domain, severity |-> severity,
     rule_class |-> rule_class, inputs |-> inputs, tags |-> tags]

PDEffect(effect_id, magnitude) == [effect_id |-> effect_id, magnitude |-> magnitude]

\* Python's max(values, key=rank): the first of the values of greatest rank
RECURSIVE MaxByRank(_, _, _)
MaxByRank(values, rank, best) ==
    IF values = <<>> THEN best
    ELSE MaxByRank(Tail(values), rank,
                   IF rank[Head(values)] > rank[best] THEN Head(values) ELSE best)


-----------------------------------------------------------------------------
(* rules/composite_rules.py *)

\* Faulty variant of _max_sev: max() without key=, which compares the
\* severities as strings (caution < contraindicated < info < major)
AlphabeticalRank == [caution |-> 0, contraindicated |-> 1, info |-> 2, major |-> 3]

_max_sev_unkeyed(hs) ==
    LET sevs == [i \in DOMAIN hs |-> hs[i].severity]
    IN MaxByRank(Tail(sevs), AlphabeticalRank, Head(sevs))

_max_sev(hs) ==
    LET sevs == [i \in DOMAIN hs |-> hs[i].severity]
    IN MaxByRank(Tail(sevs), _SEV_RANK, Head(sevs))

_max_class(hs) ==
    LET classes == [i \in DOMAIN hs |-> hs[i].rule_class]
    IN MaxByRank(Tail(classes), _CLASS_RANK, Head(classes))

\* _pair_key: (A, B), or None (here the empty tuple) when either is missing
NoKey == <<>>

_pair_key(h) ==
    IF h.inputs.A = None \/ h.inputs.B = None THEN NoKey
    ELSE <<h.inputs.A, h.inputs.B>>

\* The keys of a by_pair dict in insertion order: first occurrences only
RECURSIVE FirstSeen(_, _)
FirstSeen(keys, acc) ==
    IF keys = <<>> THEN acc
    ELSE FirstSeen(Tail(keys),
                   IF \E i \in DOMAIN acc : acc[i] = Head(keys)
                   THEN acc ELSE Append(acc, Head(keys)))

\* The hits grouped into by_pair by both derivations: PK hits carrying the
\* required tags and having a pair key, in list order
PkCandidates(hs, required_tags) ==
    LET Keep(h) == /\ h.domain = "PK"
                   /\ required_tags \subseteq h.tags
                   /\ _pair_key(h) # NoKey
    IN SelectSeq(hs, Keep)

ByPairKeys(cands) ==
    FirstSeen([i \in DOMAIN cands |-> _pair_key(cands[i])], <<>>)

ByPairHits(cands, key) ==
    LET Same(h) == _pair_key(h) = key
    IN SelectSeq(cands, Same)

_mech_rule_id(requires) ==
    IF requires = {"has_cyp", "has_pgp"} THEN "PK_DUAL_MECH_INCREASE"
    ELSE IF requires = {"has_cyp", "has_ugt"} THEN "PK_DUAL_MECH_INCREASE_CYP_UGT"
    ELSE IF requires = {"has_ugt", "has_pgp"} THEN "PK_DUAL_MECH_INCREASE_UGT_PGP"
    ELSE "PK_MULTI_MECH_INCREASE"

\* pred_map of apply_pk_composites: note startswith without upper()
PredMap(pair_hits, req) ==
    CASE req = "has_cyp" ->
            \E i \in DOMAIN pair_hits :
                StartsWith(Chars(pair_hits[i].inputs.enzyme_id), Chars("CYP"))
      [] req = "has_ugt" ->
            \E i \in DOMAIN pair_hits :
                StartsWith(Chars(pair_hits[i].inputs.enzyme_id), Chars("UGT"))
      [] req = "has_pgp" ->
            \E i \in DOMAIN pair_hits :
                pair_hits[i].inputs.transporter_id = TRANSPORTER_PGP
      [] OTHER -> FALSE

\* The composite appended by apply_pk_composites
DualComposite(rid, a, b, pair_hits) ==
    RuleHit(rid, "PK", _max_sev(pair_hits), _max_class(pair_hits),
            Inputs(a, b, None, None, None, None),
            {"exposure_increase", "dual_mechanism"})

\* Faulty variant of AlreadyEmitted: A and B compared with the wrong drug
AlreadyEmittedSwapped(out, rid, a, b) ==
    \E i \in DOMAIN out :
        /\ out[i].domain = "PK"
        /\ out[i].rule_id = rid
        /\ out[i].inputs.A = b
        /\ out[i].inputs.B = a

AlreadyEmitted(out, rid, a, b) ==
    \E i \in DOMAIN out :
        /\ out[i].domain = "PK"
        /\ out[i].rule_id = rid
        /\ out[i].inputs.A = a
        /\ out[i].inputs.B = b

RECURSIVE PkCompositesLoop(_, _, _, _)
PkCompositesLoop(keys, cands, out, requires) ==
    IF keys = <<>> THEN out
    ELSE LET a == Head(keys)[1]
             b == Head(keys)[2]
             pair_hits == ByPairHits(cands, Head(keys))
             rid == _mech_rule_id(requires)
             emit == /\ \A req \in requires : PredMap(pair_hits, req)
                     /\ ~AlreadyEmitted(out, rid, a, b)
         IN PkCompositesLoop(Tail(keys), cands,
                IF emit THEN Append(out, DualComposite(rid, a, b, pair_hits)) ELSE out,
                requires)

apply_pk_composites(f, hs, required_tags, requires) ==
    LET cands == PkCandidates(hs, required_tags)
    IN PkCompositesLoop(ByPairKeys(cands), cands, hs, requires)

apply_pk_dual_mechanism(f, hs) ==
    apply_pk_composites(f, hs, {"exposure_increase"}, {"has_cyp", "has_pgp"})

apply_pk_cyp_ugt(f, hs) ==
    apply_pk_composites(f, hs, {"exposure_increase"}, {"has_cyp", "has_ugt"})

apply_pk_ugt_pgp(f, hs) ==
    apply_pk_composites(f, hs, {"exposure_increase"}, {"has_ugt", "has_pgp"})

\* Mechanism labels are spellings, since one of them is transporter_id.lower()
EnzymeMechs(enzyme_id) ==
    LET eid == StrUpper(Chars(enzyme_id))
    IN IF StartsWith(eid, Chars("CYP")) THEN {Chars("cyp")}
       ELSE IF StartsWith(eid, Chars("UGT")) THEN {Chars("ugt")}
       ELSE {}

TransporterMechs(transporter_id) ==
    IF transporter_id = TRANSPORTER_PGP THEN {Chars("pgp")}
    ELSE IF transporter_id # None THEN {StrLower(Chars(transporter_id))}
    ELSE {}

_pk_mechanisms_for_hit(h) ==
    IF h.domain # "PK" THEN {}
    ELSE EnzymeMechs(h.inputs.enzyme_id) \cup TransporterMechs(h.inputs.transporter_id)

\* Faulty variant of _rule_id_for_mechs: the dual ids tested by inclusion
_rule_id_for_mechs_subset(mechs) ==
    IF {Chars("cyp"), Chars("pgp")} \subseteq mechs THEN "PK_DUAL_MECH_INCREASE"
    ELSE IF {Chars("cyp"), Chars("ugt")} \subseteq mechs THEN "PK_DUAL_MECH_INCREASE_CYP_UGT"
    ELSE IF {Chars("ugt"), Chars("pgp")} \subseteq mechs THEN "PK_DUAL_MECH_INCREASE_UGT_PGP"
    ELSE "PK_MULTI_MECH_INCREASE"

_rule_id_for_mechs(mechs) ==
    IF mechs = {Chars("cyp"), Chars("pgp")} THEN "PK_DUAL_MECH_INCREASE"
    ELSE IF mechs = {Chars("cyp"), Chars("ugt")} THEN "PK_DUAL_MECH_INCREASE_CYP_UGT"
    ELSE IF mechs = {Chars("ugt"), Chars("pgp")} THEN "PK_DUAL_MECH_INCREASE_UGT_PGP"
    ELSE "PK_MULTI_MECH_INCREASE"

\* mechs of one by_pair group: the union over its hits
PairMechs(pair_hits) ==
    UNION {_pk_mechanisms_for_hit(pair_hits[i]) : i \in DOMAIN pair_hits}

\* The composite appended by apply_pk_multi_mechanism_exposure_increase
MultiComposite(rid, a, b, pair_hits) ==
    RuleHit(rid, "PK", _max_sev(pair_hits), _max_class(pair_hits),
            Inputs(a, b, None, None, None, None),
            {"exposure_increase", "multi_mechanism"})

\* Faulty variant of BelowThreshold: <= for <
BelowThresholdInclusive(mechs, min_mechanisms) == Cardinality(mechs) <= min_mechanisms

\* len(mechs) < min_mechanisms: the group is skipped
BelowThreshold(mechs, min_mechanisms) == Cardinality(mechs) < min_mechanisms

RECURSIVE MultiMechLoop(_, _, _, _)
MultiMechLoop(keys, cands, out, min_mechanisms) ==
    IF keys = <<>> THEN out
    ELSE LET a == Head(keys)[1]
             b == Head(keys)[2]
             pair_hits == ByPairHits(cands, Head(keys))
             mechs == PairMechs(pair_hits)
             rid == _rule_id_for_mechs(mechs)
             emit == /\ ~BelowThreshold(mechs, min_mechanisms)
                     /\ ~AlreadyEmitted(out, rid, a, b)
         IN MultiMechLoop(Tail(keys), cands,
                IF emit THEN Append(out, MultiComposite(rid, a, b, pair_hits)) ELSE out,
                min_mechanisms)

apply_pk_multi_mechanism_exposure_increase(f, hs, min_mechanisms) ==
    LET cands == PkCandidates(hs, {"exposure_increase"})
    IN MultiMechLoop(ByPairKeys(cands), cands, hs, min_mechanisms)

\* facts.pd_effects.get(drug_id, [])
PdEffectsOf(f, drug_id) ==
    IF drug_id \in DOMAIN f.pd_effects THEN f.pd_effects[drug_id] ELSE <<>>

has_cns(f, affected_a) ==
    \E i \in DOMAIN PdEffectsOf(f, affected_a) :
        /\ PdEffectsOf(f, affected_a)[i].effect_id = PD_EFFECT_CNS_DEP
        /\ PdEffectsOf(f, affected_a)[i].magnitude \in {"medium", "high"}

CnsComposite(affected_a, interacting_b) ==
    RuleHit("COMP_PK_UP_CNS_DEP", "PD", "major", "adjust_monitor",
            Inputs(affected_a, interacting_b, None, None, None, None),
            {"composite", "cns_depression_amplified"})

\* The loop over pk_up_pairs with its seen set
RECURSIVE CnsLoop(_, _, _, _)
CnsLoop(f, pk_up_pairs, seen, out) ==
    IF pk_up_pairs = <<>> THEN out
    ELSE LET key == Head(pk_up_pairs)
         IN IF key \in seen THEN CnsLoop(f, Tail(pk_up_pairs), seen, out)
            ELSE CnsLoop(f, Tail(pk_up_pairs), seen \cup {key},
                     IF has_cns(f, key[1])
                     THEN Append(out, CnsComposite(key[1], key[2])) ELSE out)

apply_composites(f, hs) ==
    LET cands == PkCandidates(hs, {"exposure_increase"})
        pk_up_pairs == [i \in DOMAIN cands |-> _pair_key(cands[i])]
    IN apply_pk_multi_mechanism_exposure_increase(f, CnsLoop(f, pk_up_pairs, {}, hs), 2)

-----------------------------------------------------------------------------
(* A caller of the derivation functions: it builds a hit list by hand, as    *)
(* tests/test_composite_pk_multi_mech.py does, and applies one of the       *)
(* derivations to it, also to the derivation's own output, and appends       *)
(* further hits between calls.                                               *)

\* The hand-built primitive hits (tests' _hit): one per mechanism for the
\* causal pair (quetiapine, clarithromycin), two for the reverse pair, one
\* exposure-decreasing hit
PrimitiveHits ==
    { RuleHit("PK_CYP3A4_INHIB", "PK", "major", "caution",
              Inputs("quetiapine", "clarithromycin", "CYP3A4", None, None, None),
              {"exposure_increase"}),
      RuleHit("PK_UGT1A1_INHIB", "PK", "caution", "adjust_monitor",
              Inputs("quetiapine", "clarithromycin", "UGT1A1", None, None, None),
              {"exposure_increase"}),
      RuleHit("PK_PGP_INHIB", "PK", "info", "avoid",
              Inputs("quetiapine", "clarithromycin", None, "P-gp", None, None),
              {"exposure_increase"}),
      RuleHit("PK_BCRP_INHIB", "PK", "contraindicated", "info",
              Inputs("quetiapine", "clarithromycin", None, "BCRP", None, None),
              {"exposure_increase"}),
      RuleHit("PK_CYP3A4_INDUC", "PK", "caution", "caution",
              Inputs("quetiapine", "clarithromycin", "CYP3A4", None, None, None),
              {"exposure_decrease"}),
      RuleHit("PK_CYP2D6_INHIB", "PK", "caution", "caution",
              Inputs("clarithromycin", "quetiapine", "cyp2d6", None, None, None),
              {"exposure_increase"}),
      RuleHit("PK_PGP_INHIB", "PK", "major", "adjust_monitor",
              Inputs("clarithromycin", "quetiapine", None, "P-gp", None, None),
              {"exposure_increase"}) }

\* The facts the derivations read (tests' _FactsStub: pd_effects only)
NoFacts ==
    [drugs |-> <<>>, enzyme_roles |-> <<>>, transporter_roles |-> <<>>,
     pd_effects |-> <<>>, patient_flags |-> <<>>]

DeriveFacts ==
    { [NoFacts EXCEPT !.pd_effects = e] :
        e \in { <<>>,
                [d \in {"quetiapine", "clarithromycin"} |->
                    IF d = "quetiapine"
                    THEN <<PDEffect(PD_EFFECT_CNS_DEP, "low")>>
                    ELSE <<PDEffect(PD_EFFECT_CNS_DEP, "medium")>>],
                [d \in {"quetiapine"} |->
                    <<PDEffect(PD_EFFECT_QT, "high"), PDEffect(PD_EFFECT_CNS_DEP, "high")>>] } }

\* The derivation functions: the two passes' entry points and the wrappers
Derivations ==
    { "apply_composites", "apply_pk_multi_mechanism_exposure_increase",
      "apply_pk_dual_mechanism", "apply_pk_cyp_ugt", "apply_pk_ugt_pgp" }

Wrappers == {"apply_pk_dual_mechanism", "apply_pk_cyp_ugt", "apply_pk_ugt_pgp"}

NumAppended == Cardinality({i \in DOMAIN hits : hits[i] \in PrimitiveHits})

\* Only apply_composites reads facts; the tests hand None to the others
InitDerive ==
    /\ derivation \in Derivations
    /\ facts \in (IF derivation = "apply_composites" THEN DeriveFacts ELSE {NoFacts})
    /\ rules = <<>>
    /\ drug_ids = <<>>
    /\ hits = <<>>
    /\ reports = <<>>
    /\ pc = "derive"
    /\ prev_hits = <<>>
    /\ last_op = "none"
    /\ prev_op = "none"
    /\ n_calls = 0
    /\ rule_files = <<>>
    /\ load_error = NoError
    /\ rule_errors = NotValidated
    /\ domain_arg = <<>>
    /\ selected = <<>>
    /\ rules_all = <<>>
    /\ rule_mechs = <<>>

\* Faulty variant of CallerList: out = hits, the result and the caller's
\* list being one list
CallerListAliased(hs, out) == out

\* "out = hits[:]": the derivation works on a copy, so the list the caller
\* handed in is, after the call, what it was
CallerList(hs, out) == hs

\* The caller keeps the list it handed in (prev_hits) next to the result
Called(op, result) ==
    /\ hits' = result
    /\ prev_hits' = CallerList(hits, result)
    /\ last_op' = op
    /\ prev_op' = last_op
    /\ UNCHANGED <<facts, rules, drug_ids, reports, pc, derivation, load_vars, select_vars>>

AppendHit ==
    /\ pc = "derive"
    /\ NumAppended < MaxHits
    /\ \E h \in PrimitiveHits : Called("append", Append(hits, h))
    /\ UNCHANGED n_calls

ApplyComposites ==
    /\ pc = "derive"
    /\ derivation = "apply_composites"
    /\ n_calls < MaxCalls
    /\ Called(derivation, apply_composites(facts, hits))
    /\ n_calls' = n_calls + 1

ApplyPkMultiMechanism ==
    /\ pc = "derive"
    /\ derivation = "apply_pk_multi_mechanism_exposure_increase"
    /\ n_calls < MaxCalls
    /\ Called(derivation, apply_pk_multi_mechanism_exposure_increase(facts, hits, 2))
    /\ n_calls' = n_calls + 1

ApplyPkDualMechanism ==
    /\ pc = "derive"
    /\ derivation = "apply_pk_dual_mechanism"
    /\ n_calls < MaxCalls
    /\ Called(derivation, apply_pk_dual_mechanism(facts, hits))
    /\ n_calls' = n_calls + 1

ApplyPkCypUgt ==
    /\ pc = "derive"
    /\ derivation = "apply_pk_cyp_ugt"
    /\ n_calls < MaxCalls
    /\ Called(derivation, apply_pk_cyp_ugt(facts, hits))
    /\ n_calls' = n_calls + 1

ApplyPkUgtPgp ==
    /\ pc = "derive"
    /\ derivation = "apply_pk_ugt_pgp"
    /\ n_calls < MaxCalls
    /\ Called(derivation, apply_pk_ugt_pgp(facts, hits))
    /\ n_calls' = n_calls + 1

NextDerive ==
    \/ AppendHit
    \/ ApplyComposites
    \/ ApplyPkMultiMechanism
    \/ ApplyPkDualMechanism
    \/ ApplyPkCypUgt
    \/ ApplyPkUgtPgp

SpecDerive == InitDerive /\ [][NextDerive]_vars

-----------------------------------------------------------------------------
(* Properties of composite derivation, over SpecDerive *)

MultiMechIds ==
    { "PK_DUAL_MECH_INCREASE", "PK_DUAL_MECH_INCREASE_CYP_UGT",
      "PK_DUAL_MECH_INCREASE_UGT_PGP", "PK_MULTI_MECH_INCREASE" }

CausalPairs == {<<h.inputs.A, h.inputs.B>> : h \in PrimitiveHits}

\* The identity of a hit: (rule_id, A, B, domain)
HitKey(h) == <<h.rule_id, h.inputs.A, h.inputs.B, h.domain>>

CountKey(hs, k) == Cardinality({i \in DOMAIN hs : HitKey(hs[i]) = k})

SameKeyMultiset(hs1, hs2) ==
    \A k \in {HitKey(hs1[i]) : i \in DOMAIN hs1} \cup {HitKey(hs2[i]) : i \in DOMAIN hs2} :
        CountKey(hs1, k) = CountKey(hs2, k)

\* The last step was a call of the derivation; its input is prev_hits
JustCalled == last_op = derivation

\* ... and that input was itself the output of a call of the derivation
Reapplied == last_op = derivation /\ prev_op = derivation

\* What the last call appended to its input
Appended == SubSeq(hits, Len(prev_hits) + 1, Len(hits))

IsPkUp(h, a, b) ==
    /\ h.domain = "PK"
    /\ "exposure_increase" \in h.tags
    /\ h.inputs.A = a
    /\ h.inputs.B = b

\* The PK exposure_increase hits of (a, b) in a list
PkUpOf(hs, a, b) == {i \in DOMAIN hs : IsPkUp(hs[i], a, b)}

IsCnsComposite(h, a, b) ==
    h.rule_id = "COMP_PK_UP_CNS_DEP" /\ h.inputs.A = a /\ h.inputs.B = b

IsMultiComposite(h, a, b) ==
    h.domain = "PK" /\ h.rule_id \in MultiMechIds /\ h.inputs.A = a /\ h.inputs.B = b

\* How many hits of a list are the composite of a kind for (a, b)
CountCns(hs, a, b) == Cardinality({i \in DOMAIN hs : IsCnsComposite(hs[i], a, b)})

CountMulti(hs, a, b) == Cardinality({i \in DOMAIN hs : IsMultiComposite(hs[i], a, b)})

\* Drug a has a CNS_depression effect of magnitude medium or high
CnsMediumOrHigh(a) ==
    /\ a \in DOMAIN facts.pd_effects
    /\ \E i \in DOMAIN facts.pd_effects[a] :
          /\ facts.pd_effects[a][i].effect_id = "CNS_depression"
          /\ facts.pd_effects[a][i].magnitude # "low"

\* The mechanism of each enzyme and transporter id of the hand-built hits, as
\* the documentation classifies them
DocumentedMechanisms(h) ==
    (CASE h.inputs.enzyme_id \in {"CYP3A4", "cyp2d6"} -> {"cyp"}
       [] h.inputs.enzyme_id = "UGT1A1" -> {"ugt"}
       [] OTHER -> {})
    \cup
    (CASE h.inputs.transporter_id = "P-gp" -> {"pgp"}
       [] h.inputs.transporter_id = "BCRP" -> {"bcrp"}
       [] OTHER -> {})

\* The distinct mechanisms spanned by the PK exposure_increase hits of (a, b)
MechanismsOf(hs, a, b) == UNION {DocumentedMechanisms(hs[i]) : i \in PkUpOf(hs, a, b)}

\* C1: apply_composites is idempotent as a whole: applied to its own output
\* it yields the same hits as multisets keyed by (rule_id, A, B, domain), also
\* when the affected drug has a CNS_depression effect of medium or high
\* magnitude.
C1_ApplyCompositesIdempotent ==
    (derivation = "apply_composites" /\ Reapplied) => SameKeyMultiset(hits, prev_hits)

\* C2: apply_pk_multi_mechanism_exposure_increase is idempotent: applied to
\* its own output it appends nothing, and the count of each composite rule id
\* per (A, B) is the same after one and after two applications.
C2_PkMultiMechIdempotent ==
    (derivation = "apply_pk_multi_mechanism_exposure_increase" /\ Reapplied) =>
        /\ hits = prev_hits
        /\ \A rid \in MultiMechIds : \A p \in CausalPairs :
              CountKey(hits, <<rid, p[1], p[2], "PK">>)
                  = CountKey(prev_hits, <<rid, p[1], p[2], "PK">>)

C2_Witness ==
    /\ derivation = "apply_pk_multi_mechanism_exposure_increase"
    /\ Reapplied
    /\ \E i \in DOMAIN prev_hits : prev_hits[i].rule_id \in MultiMechIds

\* C3: in one call apply_composites appends a COMP_PK_UP_CNS_DEP hit for
\* (A, B) exactly when the input has a PK exposure_increase hit for (A, B),
\* drug A has a CNS_depression effect of magnitude medium or high and the
\* input holds no COMP_PK_UP_CNS_DEP for (A, B) yet; it appends at most one
\* per (A, B).
C3_CnsCompositeIffNew ==
    (derivation = "apply_composites" /\ JustCalled) =>
        \A p \in CausalPairs :
            LET due == /\ PkUpOf(prev_hits, p[1], p[2]) # {}
                       /\ CnsMediumOrHigh(p[1])
                       /\ CountCns(prev_hits, p[1], p[2]) = 0
            IN CountCns(Appended, p[1], p[2]) = (IF due THEN 1 ELSE 0)

\* C4: with min_mechanisms = 2 and an input holding no composite,
\* apply_pk_multi_mechanism_exposure_increase appends exactly one composite
\* PK hit for (A, B) when the PK exposure_increase hits of (A, B) span at
\* least 2 distinct mechanisms, and none when they span fewer; it appends
\* nothing else.
C4_MultiMechThreshold ==
    ( /\ derivation = "apply_pk_multi_mechanism_exposure_increase"
      /\ JustCalled
      /\ \A i \in DOMAIN prev_hits : prev_hits[i].rule_id \notin MultiMechIds ) =>
        /\ \A p \in CausalPairs :
              CountMulti(Appended, p[1], p[2])
                    = (IF Cardinality(MechanismsOf(prev_hits, p[1], p[2])) >= 2
                       THEN 1 ELSE 0)
        /\ \A i \in DOMAIN Appended :
              \E p \in CausalPairs : IsMultiComposite(Appended[i], p[1], p[2])

C4_Witness ==
    /\ derivation = "apply_pk_multi_mechanism_exposure_increase"
    /\ JustCalled
    /\ \A i \in DOMAIN prev_hits : prev_hits[i].rule_id \notin MultiMechIds
    /\ \E p \in CausalPairs : \E q \in CausalPairs :
          /\ Cardinality(MechanismsOf(prev_hits, p[1], p[2])) = 1
          /\ Cardinality(MechanismsOf(prev_hits, q[1], q[2])) = 2
          /\ Len(Appended) = 1
          /\ IsMultiComposite(Appended[1], q[1], q[2])

\* The rule id documented for a set of mechanisms
DocumentedRuleId(mechs) ==
    CASE mechs = {"cyp", "pgp"} -> "PK_DUAL_MECH_INCREASE"
      [] mechs = {"cyp", "ugt"} -> "PK_DUAL_MECH_INCREASE_CYP_UGT"
      [] mechs = {"ugt", "pgp"} -> "PK_DUAL_MECH_INCREASE_UGT_PGP"
      [] OTHER -> "PK_MULTI_MECH_INCREASE"

\* C5: the rule id of a composite appended for (A, B) is the dual-specific
\* id of the mechanism set {cyp,pgp}, {cyp,ugt} or {ugt,pgp} and
\* PK_MULTI_MECH_INCREASE for every other set; with cyp, ugt and pgp only the
\* generic id is appended.
C5_CompositeRuleId ==
    ( /\ derivation \in {"apply_pk_multi_mechanism_exposure_increase", "apply_composites"}
      /\ JustCalled ) =>
        \A i \in DOMAIN Appended :
            Appended[i].domain = "PK" =>
                Appended[i].rule_id
                    = DocumentedRuleId(MechanismsOf(prev_hits, Appended[i].inputs.A,
                                                    Appended[i].inputs.B))

C5_Witness ==
    /\ derivation = "apply_pk_multi_mechanism_exposure_increase"
    /\ JustCalled
    /\ \E i \in DOMAIN Appended :
          /\ MechanismsOf(prev_hits, Appended[i].inputs.A, Appended[i].inputs.B)
                = {"cyp", "ugt", "pgp"}
          /\ Appended[i].rule_id = "PK_MULTI_MECH_INCREASE"
    /\ \A i \in DOMAIN hits : hits[i].rule_id \in MultiMechIds
                                 => hits[i].rule_id = "PK_MULTI_MECH_INCREASE"

\* C6: every PK multi-mechanism composite appended for (A, B), by
\* apply_pk_multi_mechanism_exposure_increase or by a wrapper of
\* apply_pk_composites, has the highest-ranked severity and the
\* highest-ranked rule class among the PK exposure_increase hits of (A, B) of
\* the input: no such hit ranks above it and one of them ranks equal.
C6_CompositeSeverityClass ==
    ( /\ derivation \in {"apply_pk_multi_mechanism_exposure_increase"} \cup Wrappers
      /\ JustCalled ) =>
        \A i \in DOMAIN Appended :
            LET c == Appended[i]
                from == PkUpOf(prev_hits, c.inputs.A, c.inputs.B)
            IN /\ \A j \in from : _SEV_RANK[prev_hits[j].severity] <= _SEV_RANK[c.severity]
               /\ \E j \in from : prev_hits[j].severity = c.severity
               /\ \A j \in from : _CLASS_RANK[prev_hits[j].rule_class] <= _CLASS_RANK[c.rule_class]
               /\ \E j \in from : prev_hits[j].rule_class = c.rule_class

\* A composite whose severity and class come from different hits, neither
\* of them the first of its group
C6_Witness ==
    /\ derivation \in Wrappers
    /\ JustCalled
    /\ \E i \in DOMAIN Appended :
          LET c == Appended[i]
              from == PkUpOf(prev_hits, c.inputs.A, c.inputs.B)
              first == CHOOSE j \in from : \A k \in from : j <= k
          IN /\ Cardinality(from) >= 3
             /\ prev_hits[first].severity # c.severity
             /\ prev_hits[first].rule_class # c.rule_class
             /\ \A j \in from : prev_hits[j].severity # c.severity
                                   \/ prev_hits[j].rule_class # c.rule_class

\* C7: every PK multi-mechanism composite appended by a derivation carries
\* the tags exposure_increase and multi_mechanism, and dual_mechanism as well
\* when exactly two distinct mechanisms contribute.
C7_CompositeTags ==
    JustCalled =>
        \A i \in DOMAIN Appended :
            LET c == Appended[i]
            IN (c.domain = "PK" /\ c.rule_id \in MultiMechIds) =>
                  /\ {"exposure_increase", "multi_mechanism"} \subseteq c.tags
                  /\ Cardinality(MechanismsOf(prev_hits, c.inputs.A, c.inputs.B)) = 2
                        => "dual_mechanism" \in c.tags

\* C18: the output of apply_pk_multi_mechanism_exposure_increase holds, for
\* each causal pair (A, B), at most one hit whose rule_id is one of the four
\* multi-mechanism ids, whatever the input list: an earlier output of the
\* derivation with further primitive hits appended to it included.
C18_MultiMechOncePerPair ==
    (derivation = "apply_pk_multi_mechanism_exposure_increase" /\ JustCalled) =>
        \A p \in CausalPairs : CountMulti(hits, p[1], p[2]) <= 1

\* C16: composite derivation only appends: for every call of
\* apply_composites, apply_pk_multi_mechanism_exposure_increase and the
\* apply_pk_composites wrappers the returned list has the input list as an
\* unchanged prefix, and the list the caller handed in is unmodified after
\* the call.
C16_DerivationOnlyAppends ==
    [][ (n_calls' = n_calls + 1) =>
            /\ Len(hits') >= Len(hits)
            /\ SubSeq(hits', 1, Len(hits)) = hits
            /\ prev_hits' = hits ]_vars

\* A call of apply_composites on two or more hits that appended both of its
\* composites
C16_Witness ==
    /\ derivation = "apply_composites"
    /\ JustCalled
    /\ Len(prev_hits) >= 2
    /\ \E i \in DOMAIN Appended : Appended[i].domain = "PD"
    /\ \E i \in DOMAIN Appended : Appended[i].domain = "PK"

-----------------------------------------------------------------------------
(* rules/engine.py *)

\* dict.get(key) on a logic block: None when the key is absent
Get(d, key) == IF key \in DOMAIN d THEN d[key] ELSE None

\* dict.get(key) for B_strength_in, whose entries are only tested for
\* membership: the set of the entries, empty when the key is absent
GetList(d, key) == IF key \in DOMAIN d THEN d[key] ELSE {}

\* facts.<roles>.get(drug_id, [])
RecordsOf(by_drug, drug_id) ==
    IF drug_id \in DOMAIN by_drug THEN by_drug[drug_id] ELSE <<>>

\* The transporter registry (data/transporters.json), in file order
TRANSPORTERS ==
    << [id |-> "P-gp", family |-> "ABCB1"],
       [id |-> "BCRP", family |-> "ABCG2"],
       [id |-> "OATP1B1", family |-> "OATP"],
       [id |-> "OATP1B3", family |-> "OATP"] >>

\* Faulty variant of _strength_ok: a record with no strength passes
_strength_ok_missing_passes(actual, required, allowed) ==
    IF required = None /\ allowed = {} THEN TRUE
    ELSE IF actual = None THEN TRUE
    ELSE IF allowed # {} THEN actual \in allowed
    ELSE actual = required

_strength_ok(actual, required, allowed) ==
    IF required = None /\ allowed = {} THEN TRUE
    ELSE IF actual = None THEN FALSE
    ELSE IF allowed # {} THEN actual \in allowed
    ELSE actual = required

_drug_has_enzyme_role(f, drug_id, enzyme_id, role, strength, strength_in) ==
    \E i \in DOMAIN RecordsOf(f.enzyme_roles, drug_id) :
        LET r == RecordsOf(f.enzyme_roles, drug_id)[i]
        IN /\ r.enzyme_id = enzyme_id
           /\ r.role = role
           /\ _strength_ok(r.strength, strength, strength_in)

_drug_has_transporter_role(f, drug_id, transporter_id, role, strength, strength_in) ==
    \E i \in DOMAIN RecordsOf(f.transporter_roles, drug_id) :
        LET r == RecordsOf(f.transporter_roles, drug_id)[i]
        IN /\ r.transporter_id = transporter_id
           /\ r.role = role
           /\ _strength_ok(r.strength, strength, strength_in)

\* order.get(magnitude, 0)
MagnitudeOrder(m) ==
    CASE m = "low" -> 1
      [] m = "medium" -> 2
      [] m = "high" -> 3
      [] OTHER -> 0

\* Faulty variant of _drug_has_pd_effect: the magnitude is not compared
_drug_has_pd_effect_any_magnitude(f, drug_id, effect_id, min_magnitude) ==
    \E i \in DOMAIN RecordsOf(f.pd_effects, drug_id) :
        RecordsOf(f.pd_effects, drug_id)[i].effect_id = effect_id

_drug_has_pd_effect(f, drug_id, effect_id, min_magnitude) ==
    \E i \in DOMAIN RecordsOf(f.pd_effects, drug_id) :
        LET e == RecordsOf(f.pd_effects, drug_id)[i]
        IN /\ e.effect_id = effect_id
           /\ \/ min_magnitude = None
              \/ MagnitudeOrder(e.magnitude) >= MagnitudeOrder(min_magnitude)

_ti_is(f, drug_id, ti) ==
    /\ drug_id \in DOMAIN f.drugs
    /\ f.drugs[drug_id].therapeutic_index = ti

\* Faulty variant of _patient_flag: a flag that is not given counts as set
_patient_flag_default_true(f, flag) ==
    IF flag \in DOMAIN f.patient_flags THEN f.patient_flags[flag] ELSE TRUE

_patient_flag(f, flag) ==
    IF flag \in DOMAIN f.patient_flags THEN f.patient_flags[flag] ELSE FALSE

\* Faulty variant of _transporter_ids_for_family: the first id of the family
\* only
_transporter_ids_for_family_first(family) ==
    LET InFamily(t) == t.family = family
        found == SelectSeq(TRANSPORTERS, InFamily)
    IN IF found = <<>> THEN <<>> ELSE <<found[1].id>>

_transporter_ids_for_family(family) ==
    LET InFamily(t) == t.family = family
        found == SelectSeq(TRANSPORTERS, InFamily)
    IN [i \in DOMAIN found |-> found[i].id]

\* The enzyme pattern of evaluate_rule
EnzymeMatch(block, f, a, b) ==
    /\ _drug_has_enzyme_role(f, a, block.id, block.A_role, None, {})
    /\ _drug_has_enzyme_role(f, b, block.id, block.B_role,
                             Get(block, "B_strength"), GetList(block, "B_strength_in"))

\* t_ids of the transporter pattern: the direct id, else the ids of the family
TransporterIds(t_block) ==
    IF Get(t_block, "id") # None THEN <<Get(t_block, "id")>>
    ELSE IF Get(t_block, "family") # None
         THEN _transporter_ids_for_family(Get(t_block, "family"))
         ELSE <<>>

\* The transporter pattern of evaluate_rule; a block with neither id nor
\* family returns None
TransporterMatch(t_block, f, a, b) ==
    LET t_ids == TransporterIds(t_block)
    IN /\ Get(t_block, "id") # None \/ Get(t_block, "family") # None
       /\ \E i \in DOMAIN t_ids :
             _drug_has_transporter_role(f, a, t_ids[i], t_block.A_role, None, {})
       /\ \E i \in DOMAIN t_ids :
             _drug_has_transporter_role(f, b, t_ids[i], t_block.B_role,
                                        Get(t_block, "B_strength"),
                                        GetList(t_block, "B_strength_in"))

\* inputs["transporter_id"] and inputs["transporter_family"]
TransporterIdInput(t_block) ==
    IF Get(t_block, "id") # None THEN Get(t_block, "id")
    ELSE IF Get(t_block, "family") # None /\ Len(TransporterIds(t_block)) = 1
         THEN TransporterIds(t_block)[1]
         ELSE None

TransporterFamilyInput(t_block) ==
    IF Get(t_block, "id") = None THEN Get(t_block, "family") ELSE None

\* Faulty variant of SymmetricDuplicate: the comparison reversed
SymmetricDuplicateReversed(a, b) == StrLess(a, b)

\* "if a > b: return None" of the PD overlap pattern
SymmetricDuplicate(a, b) == StrLess(b, a)

\* The PD overlap pattern of evaluate_rule
PdOverlapMatch(block, f, a, b) ==
    /\ _drug_has_pd_effect(f, a, block.effect_id, Get(block, "min_magnitude"))
    /\ _drug_has_pd_effect(f, b, block.effect_id, Get(block, "min_magnitude"))
    /\ ~SymmetricDuplicate(a, b)

\* evaluate_rule: the one-element list of its hit, or the empty list for None
evaluate_rule(rule, f, a, b) ==
    LET L == rule.logic
        fails ==
            \/ "enzyme" \in DOMAIN L /\ ~EnzymeMatch(L.enzyme, f, a, b)
            \/ "transporter" \in DOMAIN L /\ ~TransporterMatch(L.transporter, f, a, b)
            \/ "pd_overlap" \in DOMAIN L /\ ~PdOverlapMatch(L.pd_overlap, f, a, b)
            \/ "A_ti" \in DOMAIN L /\ ~_ti_is(f, a, L.A_ti)
            \/ "requires_patient_flag" \in DOMAIN L
                  /\ ~_patient_flag(f, L.requires_patient_flag)
        inputs ==
            Inputs(a, b,
                   IF "enzyme" \in DOMAIN L THEN L.enzyme.id ELSE None,
                   IF "transporter" \in DOMAIN L
                       THEN TransporterIdInput(L.transporter) ELSE None,
                   IF "transporter" \in DOMAIN L
                       THEN TransporterFamilyInput(L.transporter) ELSE None,
                   IF "pd_overlap" \in DOMAIN L THEN L.pd_overlap.effect_id ELSE None)
    IN IF fails THEN <<>>
       ELSE <<RuleHit(rule.id, rule.domain, rule.severity, rule.rule_class,
                      inputs, rule.tags)>>

\* Faulty variant of Ordered: repetitions kept
OrderedWithRepetitions(ids) == ids

\* list(dict.fromkeys(drug_ids))
Ordered(ids) == FirstSeen(ids, <<>>)

\* for rule in rules
EvalRules(rs, f, a, b, acc) ==
    LET results == [i \in DOMAIN rs |-> evaluate_rule(rs[i], f, a, b)]
        IsHit(result) == result # <<>>
        fired == SelectSeq(results, IsHit)
    IN acc \o [i \in DOMAIN fired |-> fired[i][1]]

\* Faulty variant of EvalBothDirections: the direction (x, y) only
EvalOneDirection(rs, f, x, y, acc) == EvalRules(rs, f, x, y, acc)

\* for a, b in ((x, y), (y, x))
EvalBothDirections(rs, f, x, y, acc) ==
    EvalRules(rs, f, y, x, EvalRules(rs, f, x, y, acc))

\* for j in range(i + 1, len(ordered))
RECURSIVE EvalInner(_, _, _, _, _, _)
EvalInner(rs, f, ordered, i, j, acc) ==
    IF j > Len(ordered) THEN acc
    ELSE EvalInner(rs, f, ordered, i, j + 1,
                   EvalBothDirections(rs, f, ordered[i], ordered[j], acc))

\* for i in range(len(ordered))
RECURSIVE EvalOuter(_, _, _, _, _)
EvalOuter(rs, f, ordered, i, acc) ==
    IF i > Len(ordered) THEN acc
    ELSE EvalOuter(rs, f, ordered, i + 1, EvalInner(rs, f, ordered, i, i + 1, acc))

evaluate_all(rs, f, ids) == EvalOuter(rs, f, Ordered(ids), 1, <<>>)

-----------------------------------------------------------------------------
(* reasoning/combine.py *)

\* Faulty variant of combine_max_sev: the severity of the first hit
combine_max_sev_first(hs) == hs[1].severity

combine_max_sev(hs) ==
    LET sevs == [i \in DOMAIN hs |-> hs[i].severity]
    IN MaxByRank(Tail(sevs), _SEV_RANK, Head(sevs))

combine_max_class(hs) ==
    LET classes == [i \in DOMAIN hs |-> hs[i].rule_class]
    IN MaxByRank(Tail(classes), _CLASS_RANK, Head(classes))

\* Faulty variant of _pk_summary: the increase tested before the mix
_pk_summary_increase_first(pk_hits) ==
    LET inc == \E i \in DOMAIN pk_hits : "exposure_increase" \in pk_hits[i].tags
        dec == \E i \in DOMAIN pk_hits : "exposure_decrease" \in pk_hits[i].tags
    IN IF inc THEN "exposure_increase"
       ELSE IF dec THEN "exposure_decrease"
       ELSE None

_pk_summary(pk_hits) ==
    LET inc == \E i \in DOMAIN pk_hits : "exposure_increase" \in pk_hits[i].tags
        dec == \E i \in DOMAIN pk_hits : "exposure_decrease" \in pk_hits[i].tags
    IN IF inc /\ dec THEN "mixed (increase + decrease mechanisms present)"
       ELSE IF inc THEN "exposure_increase"
       ELSE IF dec THEN "exposure_decrease"
       ELSE None

\* Faulty variant of HitBefore: the severity alone
HitBeforeBySeverity(x, y) == _SEV_RANK[x.severity] > _SEV_RANK[y.severity]

\* The key (-_SEV_RANK[x.severity], x.rule_id) of _dedupe_hits' sort
HitBefore(x, y) ==
    \/ _SEV_RANK[x.severity] > _SEV_RANK[y.severity]
    \/ /\ _SEV_RANK[x.severity] = _SEV_RANK[y.severity]
       /\ StrLess(x.rule_id, y.rule_id)

\* Faulty variant of ReportBefore: the severity alone
ReportBeforeBySeverity(r, q) ==
    _SEV_RANK[r.overall_severity] > _SEV_RANK[q.overall_severity]

\* The key (-_SEV_RANK[r.overall_severity], r.drug_1, r.drug_2) of the sort
ReportBefore(r, q) ==
    \/ _SEV_RANK[r.overall_severity] > _SEV_RANK[q.overall_severity]
    \/ /\ _SEV_RANK[r.overall_severity] = _SEV_RANK[q.overall_severity]
       /\ \/ StrLess(r.drug_1, q.drug_1)
          \/ r.drug_1 = q.drug_1 /\ StrLess(r.drug_2, q.drug_2)

\* list.sort(key=...): a stable sort, here by insertion; kind names the sort
\* key, that of _dedupe_hits ("hit") or that of build_pair_reports ("report")
KeyBefore(kind, x, y) ==
    IF kind = "hit" THEN HitBefore(x, y) ELSE ReportBefore(x, y)

RECURSIVE InsertSorted(_, _, _)
InsertSorted(sorted, x, kind) ==
    IF sorted = <<>> THEN <<x>>
    ELSE IF KeyBefore(kind, x, Head(sorted)) THEN <<x>> \o sorted
    ELSE <<Head(sorted)>> \o InsertSorted(Tail(sorted), x, kind)

RECURSIVE SortedBy(_, _, _)
SortedBy(xs, kind, acc) ==
    IF xs = <<>> THEN acc
    ELSE SortedBy(Tail(xs), kind, InsertSorted(acc, Head(xs), kind))

\* The dedupe key (rule_id, A, B, domain.value)
\* Faulty variant of DedupeKey: the pair without its direction
DedupeKeyUndirected(h) == <<h.rule_id, {h.inputs.A, h.inputs.B}, h.domain>>

DedupeKey(h) == <<h.rule_id, h.inputs.A, h.inputs.B, h.domain>>

\* The loop of _dedupe_hits: the first hit of each key is kept
RECURSIVE KeepFirst(_, _, _)
KeepFirst(hs, seen, out) ==
    IF hs = <<>> THEN out
    ELSE IF DedupeKey(Head(hs)) \in seen THEN KeepFirst(Tail(hs), seen, out)
    ELSE KeepFirst(Tail(hs), seen \cup {DedupeKey(Head(hs))}, Append(out, Head(hs)))

\* render_explanation only builds a string that is thrown away
_dedupe_hits(hs) == SortedBy(KeepFirst(hs, {}, <<>>), "hit", <<>>)

\* Faulty variant of GroupKey: the pair as the hit gives it
GroupKeyDirectional(h) == <<h.inputs.A, h.inputs.B>>

\* d1, d2 = (a, b) if a < b else (b, a)
GroupKey(h) ==
    IF StrLess(h.inputs.A, h.inputs.B) THEN <<h.inputs.A, h.inputs.B>>
    ELSE <<h.inputs.B, h.inputs.A>>

\* The PairReport of one group
PairReport(key, pair_hits) ==
    LET IsPk(h) == h.domain = "PK"
        IsPd(h) == h.domain = "PD"
        pk_out == _dedupe_hits(SelectSeq(pair_hits, IsPk))
        pd_out == _dedupe_hits(SelectSeq(pair_hits, IsPd))
    IN [drug_1 |-> key[1], drug_2 |-> key[2],
        overall_severity |-> combine_max_sev(pair_hits),
        overall_rule_class |-> combine_max_class(pair_hits),
        pk_hits |-> pk_out, pd_hits |-> pd_out,
        pk_summary |-> _pk_summary(pk_out)]

build_pair_reports(f, hs) ==
    LET keys == FirstSeen([i \in DOMAIN hs |-> GroupKey(hs[i])], <<>>)
        Group(key) == LET InGroup(h) == GroupKey(h) = key IN SelectSeq(hs, InGroup)
        unsorted == [i \in DOMAIN keys |-> PairReport(keys[i], Group(keys[i]))]
    IN SortedBy(unsorted, "report", <<>>)

-----------------------------------------------------------------------------
(* The pipeline of app/cli.py: evaluate_all, apply_composites,                *)
(* build_pair_reports, over a rule library and facts drawn at the start.     *)

EnzymeRole(enzyme_id, role, strength) ==
    [enzyme_id |-> enzyme_id, role |-> role, strength |-> strength]

TransporterRole(transporter_id, role, strength) ==
    [transporter_id |-> transporter_id, role |-> role, strength |-> strength]

Rule(id, domain, severity, rule_class, logic, tags) ==
    [id |-> id, domain |-> domain, severity |-> severity, rule_class |-> rule_class,
     logic |-> logic, tags |-> tags]

\* The loaded rules, in load order
RuleLibrary ==
    << Rule("PD_CNS_ADDITIVE", "PD", "caution", "caution",
            [pd_overlap |-> [effect_id |-> PD_EFFECT_CNS_DEP]],
            {"cns_depression"}),
       Rule("PD_QT_ADDITIVE", "PD", "major", "adjust_monitor",
            [pd_overlap |-> [effect_id |-> PD_EFFECT_QT, min_magnitude |-> "medium"]],
            {"qt"}),
       Rule("PD_QT_RISK_FLAG", "PD", "contraindicated", "avoid",
            [pd_overlap |-> [effect_id |-> PD_EFFECT_QT],
             requires_patient_flag |-> "qt_risk"],
            {"qt"}),
       Rule("PD_CNS_RESPIRATORY", "PD", "major", "avoid",
            [pd_overlap |-> [effect_id |-> PD_EFFECT_CNS_DEP],
             requires_patient_flag |-> "respiratory_risk"],
            {"cns_depression"}),
       Rule("PK_CYP3A4_INDUC", "PK", "caution", "adjust_monitor",
            [enzyme |-> [id |-> "CYP3A4", A_role |-> "substrate", B_role |-> "inducer"]],
            {"exposure_decrease"}),
       Rule("PK_CYP3A4_INHIB_NTI", "PK", "contraindicated", "caution",
            [enzyme |-> [id |-> "CYP3A4", A_role |-> "substrate", B_role |-> "inhibitor",
                         B_strength_in |-> {"moderate", "strong"}],
             A_ti |-> "narrow"],
            {"exposure_increase"}),
       Rule("PK_CYP3A4_STRONG_INHIB", "PK", "major", "adjust_monitor",
            [enzyme |-> [id |-> "CYP3A4", A_role |-> "substrate", B_role |-> "inhibitor",
                         B_strength |-> "strong"]],
            {"exposure_increase"}),
       Rule("PK_OATP_INHIB", "PK", "caution", "caution",
            [transporter |-> [family |-> "OATP", A_role |-> "substrate",
                              B_role |-> "inhibitor", B_strength |-> "strong"]],
            {"exposure_increase"}),
       Rule("PK_PGP_INHIB_DIGOXIN", "PK", "info", "avoid",
            [transporter |-> [family |-> "ABCB1", A_role |-> "substrate",
                              B_role |-> "inhibitor"]],
            {"exposure_increase"}),
       Rule("PK_PGP_INHIB", "PK", "info", "caution",
            [transporter |-> [id |-> "P-gp", A_role |-> "substrate",
                              B_role |-> "inhibitor", B_strength |-> "weak"]],
            {"exposure_increase"}),
       Rule("PK_OCT_INHIB", "PK", "caution", "caution",
            [transporter |-> [family |-> "SLC22", A_role |-> "substrate",
                              B_role |-> "inhibitor"]],
            {"exposure_increase"}),
       Rule("PK_TRANSPORTER_INHIB", "PK", "caution", "caution",
            [transporter |-> [A_role |-> "substrate", B_role |-> "inhibitor"]],
            {"exposure_increase"}) >>

\* What a drug can be in the facts: its Drug record and its role records
DrugProfiles ==
    { [therapeutic_index |-> "wide",
       enzyme_roles |-> <<>>, transporter_roles |-> <<>>, pd_effects |-> <<>>],
      [therapeutic_index |-> "narrow",
       enzyme_roles |-> <<EnzymeRole("CYP3A4", "substrate", None)>>,
       transporter_roles |-> <<TransporterRole("P-gp", "substrate", None),
                               TransporterRole("OATP1B3", "substrate", None)>>,
       pd_effects |-> <<PDEffect(PD_EFFECT_QT, "low"),
                        PDEffect(PD_EFFECT_CNS_DEP, "medium")>>],
      [therapeutic_index |-> "narrow",
       enzyme_roles |-> <<EnzymeRole("CYP3A4", "inhibitor", "moderate")>>,
       transporter_roles |-> <<TransporterRole("P-gp", "inhibitor", None),
                               TransporterRole("OATP1B1", "inhibitor", "strong")>>,
       pd_effects |-> <<PDEffect(PD_EFFECT_QT, "high")>>],
      [therapeutic_index |-> "moderate",
       enzyme_roles |-> <<EnzymeRole("CYP3A4", "substrate", None),
                          EnzymeRole("CYP3A4", "inhibitor", "strong"),
                          EnzymeRole("CYP3A4", "inducer", None)>>,
       transporter_roles |-> <<TransporterRole("P-gp", "substrate", None),
                               TransporterRole("P-gp", "inhibitor", "weak")>>,
       pd_effects |-> <<PDEffect(PD_EFFECT_CNS_DEP, "high"),
                        PDEffect(PD_EFFECT_QT, "medium")>>],
      [therapeutic_index |-> "wide",
       enzyme_roles |-> <<EnzymeRole("CYP3A4", "inducer", "strong"),
                          EnzymeRole("CYP3A4", "inhibitor", None)>>,
       transporter_roles |-> <<>>, pd_effects |-> <<>>] }

\* The drugs of the knowledge base the run resolves
Drugs == {"citalopram", "clarithromycin", "digoxin"}

\* digoxin is the narrow-index substrate; the other two drugs can be anything
ProfileChoices ==
    {p \in [Drugs -> DrugProfiles] :
        /\ p["digoxin"].therapeutic_index = "narrow"
        /\ \E i \in DOMAIN p["digoxin"].enzyme_roles :
              p["digoxin"].enzyme_roles[i].role = "substrate"}

FactsOf(profile, qt_risk) ==
    [drugs |-> [d \in Drugs |-> [id |-> d, therapeutic_index |-> profile[d].therapeutic_index]],
     enzyme_roles |-> [d \in Drugs |-> profile[d].enzyme_roles],
     transporter_roles |-> [d \in Drugs |-> profile[d].transporter_roles],
     pd_effects |-> [d \in Drugs |-> profile[d].pd_effects],
     patient_flags |-> [flag \in {"qt_risk", "bleeding_risk"} |->
                            IF flag = "qt_risk" THEN qt_risk ELSE FALSE]]

\* The drug_ids lists: the drugs in any order, with repetitions
DrugIdLists == UNION {[1..n -> Drugs] : n \in 0..MaxDrugIds}

Init ==
    /\ \E profile \in ProfileChoices : \E qt_risk \in BOOLEAN :
          facts = FactsOf(profile, qt_risk)
    /\ rules = RuleLibrary
    /\ drug_ids \in DrugIdLists
    /\ hits = <<>>
    /\ reports = <<>>
    /\ pc = "start"
    /\ derivation = "apply_composites"
    /\ prev_hits = <<>>
    /\ last_op = "none"
    /\ prev_op = "none"
    /\ n_calls = 0
    /\ rule_files = <<>>
    /\ load_error = NoError
    /\ rule_errors = NotValidated
    /\ domain_arg = <<>>
    /\ selected = <<>>
    /\ rules_all = <<>>
    /\ rule_mechs = <<>>

\* hits = evaluate_all(rules, facts, drug_ids)
EvaluateAll ==
    /\ pc \in {"start", "loaded"}
    /\ hits' = evaluate_all(rules, facts, drug_ids)
    /\ pc' = "evaluated"
    /\ prev_hits' = hits
    /\ last_op' = "evaluate_all"
    /\ prev_op' = last_op
    /\ UNCHANGED <<facts, rules, drug_ids, reports, derivation, n_calls, load_vars, select_vars>>

\* hits = apply_composites(facts, hits)
DeriveComposites ==
    /\ pc = "evaluated"
    /\ hits' = apply_composites(facts, hits)
    /\ pc' = "composed"
    /\ prev_hits' = CallerList(hits, hits')
    /\ last_op' = derivation
    /\ prev_op' = last_op
    /\ n_calls' = n_calls + 1
    /\ UNCHANGED <<facts, rules, drug_ids, reports, derivation, load_vars, select_vars>>

\* reports = build_pair_reports(facts, hits, templates); the tests also build
\* the reports from the hits of evaluate_all
BuildPairReports ==
    /\ pc \in {"evaluated", "composed"}
    /\ reports' = build_pair_reports(facts, hits)
    /\ pc' = "reported"
    /\ UNCHANGED <<facts, rules, drug_ids, hits, derivation, prev_hits, last_op,
                   prev_op, n_calls, load_vars, select_vars>>

Next ==
    \/ EvaluateAll
    \/ DeriveComposites
    \/ BuildPairReports

Spec == Init /\ [][Next]_vars

-----------------------------------------------------------------------------
(* build_pair_reports over a hit list the caller built by hand, as           *)
(* tests/test_pk_summary.py does: hits of three pairs, with hits that share  *)
(* a dedupe key, hits of one rule in both directions, and equal severities.  *)

GivenHits ==
    { RuleHit("PK_CYP3A4_STRONG_INHIB", "PK", "major", "adjust_monitor",
              Inputs("digoxin", "clarithromycin", "CYP3A4", None, None, None),
              {"exposure_increase"}),
      RuleHit("PK_CYP3A4_STRONG_INHIB", "PK", "caution", "caution",
              Inputs("digoxin", "clarithromycin", "CYP3A4", None, None, None),
              {"exposure_increase"}),
      RuleHit("PK_CYP3A4_STRONG_INHIB", "PK", "major", "adjust_monitor",
              Inputs("clarithromycin", "digoxin", "CYP3A4", None, None, None),
              {"exposure_increase"}),
      RuleHit("PK_CYP3A4_INDUC", "PK", "major", "adjust_monitor",
              Inputs("digoxin", "clarithromycin", "CYP3A4", None, None, None),
              {"exposure_decrease"}),
      RuleHit("PD_QT_ADDITIVE", "PD", "major", "adjust_monitor",
              Inputs("clarithromycin", "digoxin", None, None, None, PD_EFFECT_QT),
              {"qt"}),
      RuleHit("PD_QT_ADDITIVE", "PD", "major", "adjust_monitor",
              Inputs("citalopram", "clarithromycin", None, None, None, PD_EFFECT_QT),
              {"qt"}),
      RuleHit("PD_QT_ADDITIVE", "PD", "major", "adjust_monitor",
              Inputs("citalopram", "digoxin", None, None, None, PD_EFFECT_QT),
              {"qt"}),
      RuleHit("PD_CNS_ADDITIVE", "PD", "contraindicated", "avoid",
              Inputs("citalopram", "digoxin", None, None, None, PD_EFFECT_CNS_DEP),
              {"cns_depression"}),
      RuleHit("PK_PGP_INHIB_DIGOXIN", "PK", "info", "avoid",
              Inputs("citalopram", "clarithromycin", None, "P-gp", "ABCB1", None),
              {"exposure_increase"}) }

\* The hit lists handed to build_pair_reports
HitLists == UNION {[1..n -> GivenHits] : n \in 0..MaxReportHits}

InitReport ==
    /\ facts = NoFacts
    /\ rules = <<>>
    /\ drug_ids = <<>>
    /\ hits \in HitLists
    /\ reports = <<>>
    /\ pc = "given"
    /\ derivation = "none"
    /\ prev_hits = <<>>
    /\ last_op = "none"
    /\ prev_op = "none"
    /\ n_calls = 0
    /\ rule_files = <<>>
    /\ load_error = NoError
    /\ rule_errors = NotValidated
    /\ domain_arg = <<>>
    /\ selected = <<>>
    /\ rules_all = <<>>
    /\ rule_mechs = <<>>

\* reports = build_pair_reports(facts, hits, rule_templates={})
BuildReportsOfGiven ==
    /\ pc = "given"
    /\ reports' = build_pair_reports(facts, hits)
    /\ pc' = "built"
    /\ UNCHANGED <<facts, rules, drug_ids, hits, derivation, prev_hits, last_op,
                   prev_op, n_calls, load_vars, select_vars>>

NextReport == BuildReportsOfGiven

SpecReport == InitReport /\ [][NextReport]_vars

-----------------------------------------------------------------------------
(* Rule loading (rules/engine.py load_rules) and rule validation             *)
(* (rules/validate_rules.py), over the definitions of a rule directory. A    *)
(* definition is the parsed JSON object of one file: a function from its     *)
(* keys to their values. A file is named by its place in the file-name       *)
(* order.                                                                    *)

Domains == {"PK", "PD"}

\* raw.get(key, default)
GetOr(raw, key, default) == IF key \in DOMAIN raw THEN raw[key] ELSE default

\* The exceptions of load_rules: the ValueError it raises for a KeyError, and
\* the ValueError of an Enum constructor, which it does not catch
MissingKey(file, key) == [raised |-> "ValueError", file |-> file, key |-> key, value |-> ""]
InvalidEnum(value) == [raised |-> "ValueError", file |-> 0, key |-> "", value |-> value]

\* The arguments of Rule(...) are evaluated in the order written: the first
\* one that raises decides the exception
LoadErrorOf(file, raw) ==
    IF "id" \notin DOMAIN raw THEN MissingKey(file, "id")
    ELSE IF "name" \notin DOMAIN raw THEN MissingKey(file, "name")
    ELSE IF "domain" \notin DOMAIN raw THEN MissingKey(file, "domain")
    ELSE IF raw["domain"] \notin Domains THEN InvalidEnum(raw["domain"])
    ELSE IF "severity" \notin DOMAIN raw THEN MissingKey(file, "severity")
    ELSE IF raw["severity"] \notin Severities THEN InvalidEnum(raw["severity"])
    ELSE IF GetOr(raw, "rule_class", "caution") \notin RuleClasses
         THEN InvalidEnum(raw["rule_class"])
    ELSE IF "logic" \notin DOMAIN raw THEN MissingKey(file, "logic")
    ELSE NoError

\* The Rule built from a definition; explanation_template, references and
\* actions have defaults and are not read by evaluation
RuleOf(raw) ==
    Rule(raw["id"], raw["domain"], raw["severity"], GetOr(raw, "rule_class", "caution"),
         raw["logic"], GetOr(raw, "tags", {}))

\* load_rules: the rules of the files in file-name order, or the exception
\* of the first file that raises (nothing is returned then)
RECURSIVE LoadLoop(_, _, _)
LoadLoop(files, n, acc) ==
    IF n > Len(files) THEN [error |-> NoError, rules |-> acc]
    ELSE IF LoadErrorOf(n, files[n]) # NoError
         THEN [error |-> LoadErrorOf(n, files[n]), rules |-> <<>>]
         ELSE LoadLoop(files, n + 1, Append(acc, RuleOf(files[n])))

load_rules(files) == LoadLoop(files, 1, <<>>)

(* rules/validate_rules.py *)

REQUIRED_TOP_KEYS ==
    {"id", "name", "domain", "severity", "rule_class", "actions", "logic",
     "explanation_template"}

RuleError(file, message, detail) == [file |-> file, message |-> message, detail |-> detail]

\* One error when the condition holds
ErrorIf(condition, file, message, detail) ==
    IF condition THEN <<RuleError(file, message, detail)>> ELSE <<>>

\* for k in (...): if k not in block: errors.append(...)
RECURSIVE MissingBlockKeys(_, _, _, _)
MissingBlockKeys(file, block, keys, message) ==
    IF keys = <<>> THEN <<>>
    ELSE ErrorIf(Head(keys) \notin DOMAIN block, file, message, {Head(keys)})
            \o MissingBlockKeys(file, block, Tail(keys), message)

\* validate_rule: the errors of one definition, in the order appended. The
\* definitions drawn have a list of strings for actions, an object for logic
\* and its blocks, and known placeholders only, so those tests never fail.
validate_rule(file, raw) ==
    LET missing == REQUIRED_TOP_KEYS \ DOMAIN raw
        logic == raw["logic"]
        keys == {"enzyme", "transporter", "pd_overlap"} \cap DOMAIN logic
    IN IF missing # {} THEN <<RuleError(file, "Missing required keys", missing)>>
       ELSE ErrorIf(raw["domain"] \notin Domains, file, "Invalid domain", {raw["domain"]})
            \o ErrorIf(raw["severity"] \notin Severities, file, "Invalid severity",
                       {raw["severity"]})
            \o ErrorIf(raw["rule_class"] \notin RuleClasses, file, "Invalid rule_class",
                       {raw["rule_class"]})
            \o ErrorIf(Cardinality(keys) # 1, file,
                       "logic must include exactly one of enzyme/transporter/pd_overlap", keys)
            \o (IF "enzyme" \in DOMAIN logic
                THEN MissingBlockKeys(file, logic["enzyme"], <<"id", "A_role", "B_role">>,
                                      "logic.enzyme missing")
                ELSE <<>>)
            \o (IF "transporter" \in DOMAIN logic
                THEN MissingBlockKeys(file, logic["transporter"], <<"id", "A_role", "B_role">>,
                                      "logic.transporter missing")
                ELSE <<>>)
            \o (IF "pd_overlap" \in DOMAIN logic
                THEN MissingBlockKeys(file, logic["pd_overlap"], <<"effect_id">>,
                                      "logic.pd_overlap missing")
                ELSE <<>>)

\* main of validate_rules.py: the errors of all files
RECURSIVE AllErrors(_, _)
AllErrors(files, n) ==
    IF n > Len(files) THEN <<>>
    ELSE validate_rule(n, files[n]) \o AllErrors(files, n + 1)

(* The start of a run: the rule directory is validated, or not, then loaded, *)
(* and the loaded rules are evaluated.                                       *)

\* A definition without one of its keys
Without(raw, key) == [k \in (DOMAIN raw) \ {key} |-> raw[k]]

CompletePd ==
    [id |-> "PD_CNS_ADDITIVE", name |-> "Additive CNS depression", domain |-> "PD",
     severity |-> "caution", rule_class |-> "caution", actions |-> <<>>,
     logic |-> [pd_overlap |-> [effect_id |-> PD_EFFECT_CNS_DEP]],
     explanation_template |-> "{A_name} + {B_name}", tags |-> {"cns_depression"}]

CompletePk ==
    [id |-> "PK_CYP3A4_STRONG_INHIB", name |-> "Strong CYP3A4 inhibition", domain |-> "PK",
     severity |-> "major", rule_class |-> "adjust_monitor", actions |-> <<>>,
     logic |-> [enzyme |-> [id |-> "CYP3A4", A_role |-> "substrate", B_role |-> "inhibitor",
                            B_strength |-> "strong"]],
     explanation_template |-> "{A_name} + {B_name}", tags |-> {"exposure_increase"}]

\* The definitions a rule file can hold: complete ones, ones without a key,
\* ones with a value outside an enumeration, and ones whose logic block has
\* none or two of the pattern keys
RawDefinitions ==
    {CompletePd, CompletePk}
    \cup {Without(CompletePk, key) :
            key \in {"id", "name", "domain", "severity", "rule_class", "logic",
                     "explanation_template"}}
    \cup {[CompletePd EXCEPT !["domain"] = "PX"],
          [CompletePd EXCEPT !["severity"] = "severe"],
          [CompletePd EXCEPT !["rule_class"] = "never"],
          [CompletePk EXCEPT !["logic"] = [A_ti |-> "narrow"]],
          [CompletePd EXCEPT !["logic"] =
              [pd_overlap |-> [effect_id |-> PD_EFFECT_CNS_DEP],
               enzyme |-> [id |-> "CYP3A4", A_role |-> "substrate", B_role |-> "inhibitor"]]]}

RuleDirectories == UNION {[1..n -> RawDefinitions] : n \in 0..MaxRuleFiles}

\* The facts of the run: two narrow-index substrates and an inhibitor
LoadFacts ==
    LET victim == CHOOSE p \in DrugProfiles : p.therapeutic_index = "narrow"
        both == CHOOSE p \in DrugProfiles : p.therapeutic_index = "moderate"
    IN FactsOf([d \in Drugs |-> IF d = "clarithromycin" THEN both ELSE victim], FALSE)

\* The drug ids of the run; verapamil is not a drug of the facts
LoadIdLists ==
    { <<"digoxin", "clarithromycin">>,
      <<"clarithromycin", "digoxin", "citalopram">>,
      <<"digoxin", "verapamil">> }

InitLoad ==
    /\ facts = LoadFacts
    /\ rules = <<>>
    /\ drug_ids \in LoadIdLists
    /\ hits = <<>>
    /\ reports = <<>>
    /\ pc = "files"
    /\ derivation = "apply_composites"
    /\ prev_hits = <<>>
    /\ last_op = "none"
    /\ prev_op = "none"
    /\ n_calls = 0
    /\ rule_files \in RuleDirectories
    /\ load_error = NoError
    /\ rule_errors = NotValidated
    /\ domain_arg = <<>>
    /\ selected = <<>>
    /\ rules_all = <<>>
    /\ rule_mechs = <<>>

\* python -m rules.validate_rules
ValidateRules ==
    /\ pc = "files"
    /\ rule_errors = NotValidated
    /\ rule_errors' = AllErrors(rule_files, 1)
    /\ UNCHANGED <<facts, rules, drug_ids, hits, reports, pc, derivation, prev_hits,
                   last_op, prev_op, n_calls, rule_files, load_error, select_vars>>

\* rules_all = load_rules(RULE_DIR); an exception ends the run
LoadRules ==
    /\ pc = "files"
    /\ LET result == load_rules(rule_files)
       IN IF result.error = NoError
          THEN /\ rules' = result.rules
               /\ pc' = "loaded"
               /\ UNCHANGED load_error
          ELSE /\ load_error' = result.error
               /\ pc' = "load_failed"
               /\ UNCHANGED rules
    /\ UNCHANGED <<facts, drug_ids, hits, reports, derivation, prev_hits, last_op, prev_op,
                   n_calls, rule_files, rule_errors, select_vars>>

NextLoad ==
    \/ ValidateRules
    \/ LoadRules
    \/ EvaluateAll

SpecLoad == InitLoad /\ [][NextLoad]_vars

-----------------------------------------------------------------------------
(* The domain selection of app/cli.py (_parse_domain_selection,              *)
(* filter_rules_for_selected_domains) and rules/engine.py rule_mechanisms,   *)
(* over a --domain argument and a list of loaded rules.                      *)

\* TRANSPORTERS.get(t_id), then meta.get("family")
RegistryFamily(t_id) ==
    IF \E i \in DOMAIN TRANSPORTERS : TRANSPORTERS[i].id = t_id
    THEN LET i == CHOOSE k \in DOMAIN TRANSPORTERS : TRANSPORTERS[k].id = t_id
         IN TRANSPORTERS[i].family
    ELSE None

\* The tag of the enzyme block
EnzymeTag(block) ==
    LET enzyme_id == Get(block, "id")
    IN IF StartsWith(Chars(enzyme_id), Chars("CYP")) THEN "cyp"
       ELSE IF StartsWith(Chars(enzyme_id), Chars("UGT")) THEN "ugt"
       ELSE "enzyme"

\* The tag of the transporter block
TransporterTag(t) ==
    LET t_id == Get(t, "id")
        given == Get(t, "family")
        t_family == IF given = None /\ t_id # None THEN RegistryFamily(t_id) ELSE given
    IN IF t_family = "ABCB1" \/ t_id = "P-gp" THEN "pgp"
       ELSE IF t_family = "ABCG2" \/ t_id = "BCRP" THEN "bcrp"
       ELSE IF t_family = "OATP" \/ StartsWith(Chars(t_id), Chars("OATP")) THEN "oatp"
       ELSE "transporter"

\* Faulty variant of rule_mechanisms: the first block found gives the only tag
rule_mechanisms_first_block(rule) ==
    LET L == rule.logic
    IN IF "enzyme" \in DOMAIN L THEN <<EnzymeTag(L.enzyme)>>
       ELSE IF "transporter" \in DOMAIN L THEN <<TransporterTag(L.transporter)>>
       ELSE IF "pd_overlap" \in DOMAIN L THEN <<"pd">>
       ELSE <<>>

rule_mechanisms(rule) ==
    LET L == rule.logic
    IN (IF "enzyme" \in DOMAIN L THEN <<EnzymeTag(L.enzyme)>> ELSE <<>>)
       \o (IF "transporter" \in DOMAIN L THEN <<TransporterTag(L.transporter)>> ELSE <<>>)
       \o (IF "pd_overlap" \in DOMAIN L THEN <<"pd">> ELSE <<>>)

\* str.strip(), on spellings: the blanks at both ends removed
Strip(cs) ==
    LET inked == {i \in DOMAIN cs : cs[i] # " "}
    IN IF inked = {} THEN <<>>
       ELSE SubSeq(cs, CHOOSE i \in inked : \A k \in inked : i <= k,
                       CHOOSE i \in inked : \A k \in inked : k <= i)

\* str.split(","), on spellings
RECURSIVE SplitAt(_, _, _)
SplitAt(cs, part, acc) ==
    IF cs = <<>> THEN Append(acc, part)
    ELSE IF Head(cs) = "," THEN SplitAt(Tail(cs), <<>>, Append(acc, part))
    ELSE SplitAt(Tail(cs), Append(part, Head(cs)), acc)

\* [p.strip() for p in raw.split(",") if p.strip()]
Parts(raw) ==
    LET pieces == SplitAt(raw, <<>>, <<>>)
        stripped == [i \in DOMAIN pieces |-> Strip(pieces[i])]
        NotEmpty(p) == p # <<>>
    IN SelectSeq(stripped, NotEmpty)

\* add(x) for each x of xs: appended unless already selected
RECURSIVE AddAll(_, _)
AddAll(sel, xs) ==
    IF xs = <<>> THEN sel
    ELSE AddAll(IF \E i \in DOMAIN sel : sel[i] = Head(xs) THEN sel ELSE Append(sel, Head(xs)),
                Tail(xs))

AllTags == <<"cyp", "ugt", "pgp", "bcrp", "oatp", "pd">>

\* The tags one option adds; the empty list stands for an unknown option
OptionTags(p) ==
    IF p = Chars("all") THEN AllTags
    ELSE IF p = Chars("pk") THEN <<"cyp", "ugt", "pgp", "bcrp", "oatp">>
    ELSE IF p = Chars("pd") THEN <<"pd">>
    ELSE IF p = Chars("cyp") THEN <<"cyp">>
    ELSE IF p = Chars("pgp") THEN <<"pgp">>
    ELSE IF p = Chars("bcrp") THEN <<"bcrp">>
    ELSE IF p = Chars("oatp") THEN <<"oatp">>
    ELSE IF p = Chars("ugt") THEN <<"ugt">>
    ELSE <<>>

\* for p in parts
RECURSIVE SelectParts(_, _)
SelectParts(parts, sel) ==
    IF parts = <<>> THEN sel
    ELSE SelectParts(Tail(parts), AddAll(sel, OptionTags(Head(parts))))

\* _parse_domain_selection: the selected tags, and whether SystemExit was
\* raised for an unknown option
_parse_domain_selection(arg) ==
    LET raw == StrLower(Strip(IF arg = <<>> THEN Chars("all") ELSE arg))
        parts == Parts(raw)
        unknown == \E i \in DOMAIN parts : OptionTags(parts[i]) = <<>>
        sel == SelectParts(parts, <<>>)
    IN [exit |-> unknown,
        selected |-> IF unknown THEN <<>> ELSE IF sel = <<>> THEN AllTags ELSE sel]

\* filter_rules_for_selected_domains
filter_rules_for_selected_domains(rs, sel) ==
    LET selected_set == {sel[i] : i \in DOMAIN sel}
        Kept(r) == LET tags == rule_mechanisms(r)
                   IN {tags[i] : i \in DOMAIN tags} \cap selected_set # {}
    IN SelectSeq(rs, Kept)

\* The logic blocks of the rules the selection is tried on
SelectableLogic ==
    { [enzyme |-> [id |-> "CYP3A4", A_role |-> "substrate", B_role |-> "inhibitor"]],
      [enzyme |-> [id |-> "UGT1A1", A_role |-> "substrate", B_role |-> "inhibitor"]],
      [enzyme |-> [id |-> "NAT2", A_role |-> "substrate", B_role |-> "inhibitor"]],
      [enzyme |-> [id |-> "cyp2d6", A_role |-> "substrate", B_role |-> "inhibitor"]],
      [transporter |-> [id |-> "P-gp", A_role |-> "substrate", B_role |-> "inhibitor"]],
      [transporter |-> [family |-> "ABCG2", A_role |-> "substrate", B_role |-> "inhibitor"]],
      [transporter |-> [family |-> "OATP", A_role |-> "substrate", B_role |-> "inhibitor"]],
      [transporter |-> [id |-> "OATP2B1", A_role |-> "substrate", B_role |-> "inhibitor"]],
      [transporter |-> [id |-> "MATE1", A_role |-> "substrate", B_role |-> "inhibitor"]],
      [pd_overlap |-> [effect_id |-> PD_EFFECT_QT]],
      [enzyme |-> [id |-> "CYP3A4", A_role |-> "substrate", B_role |-> "inhibitor"],
       transporter |-> [family |-> "SLC22", A_role |-> "substrate", B_role |-> "inhibitor"],
       pd_overlap |-> [effect_id |-> PD_EFFECT_QT]],
      [A_ti |-> "narrow"] }

SelectableRules ==
    {Rule("RULE", IF "pd_overlap" \in DOMAIN L THEN "PD" ELSE "PK", "caution", "caution", L, {}) :
        L \in SelectableLogic}

RuleLists == UNION {[1..n -> SelectableRules] : n \in 0..MaxRules}

\* The --domain arguments; the empty spelling is the argument not given
DomainArgs ==
    { <<>>, Chars("all"), <<" ", "A", "l", "l", " ">>, <<",">>, <<" ">>,
      Chars("pk"), Chars("pd"), Chars("ugt"),
      <<"c", "y", "p", ",", " ", "P", "D">>,
      <<"p", "g", "p", ",", ",", "o", "a", "t", "p", ",", "p", "g", "p">>,
      <<"b", "c", "r", "p", ",", "p", "k">>,
      <<"c", "y", "p", ",", "x">> }

InitSelect ==
    /\ facts = NoFacts
    /\ rules = <<>>
    /\ drug_ids = <<>>
    /\ hits = <<>>
    /\ reports = <<>>
    /\ pc = "args"
    /\ derivation = "none"
    /\ prev_hits = <<>>
    /\ last_op = "none"
    /\ prev_op = "none"
    /\ n_calls = 0
    /\ rule_files = <<>>
    /\ load_error = NoError
    /\ rule_errors = NotValidated
    /\ domain_arg \in DomainArgs
    /\ selected = <<>>
    /\ rules_all \in RuleLists
    /\ rule_mechs = <<>>

\* selected = _parse_domain_selection(args.domain); SystemExit ends the run
ParseDomainSelection ==
    /\ pc = "args"
    /\ LET result == _parse_domain_selection(domain_arg)
       IN /\ selected' = result.selected
          /\ pc' = IF result.exit THEN "usage_error" ELSE "selected"
    /\ UNCHANGED <<facts, rules, drug_ids, hits, reports, derivation, prev_hits, last_op,
                   prev_op, n_calls, load_vars, domain_arg, rules_all, rule_mechs>>

\* rules = filter_rules_for_selected_domains(rules_all, selected)
FilterRules ==
    /\ pc = "selected"
    /\ rules' = filter_rules_for_selected_domains(rules_all, selected)
    /\ rule_mechs' = [i \in DOMAIN rules_all |-> rule_mechanisms(rules_all[i])]
    /\ pc' = "filtered"
    /\ UNCHANGED <<facts, drug_ids, hits, reports, derivation, prev_hits, last_op,
                   prev_op, n_calls, load_vars, domain_arg, selected, rules_all>>

NextSelect ==
    \/ ParseDomainSelection
    \/ FilterRules

SpecSelect == InitSelect /\ [][NextSelect]_vars

-----------------------------------------------------------------------------
(* Properties of evaluation and aggregation, over Spec *)

\* The distinct ids of drug_ids
GivenDrugs == {drug_ids[i] : i \in DOMAIN drug_ids}

\* The place of a drug in drug_ids once repetitions are dropped: ids are
\* placed by their first occurrence
FirstIndex(d) == CHOOSE i \in DOMAIN drug_ids :
                    drug_ids[i] = d /\ \A j \in DOMAIN drug_ids : drug_ids[j] = d => i <= j

Place(d) == Cardinality({e \in GivenDrugs : FirstIndex(e) <= FirstIndex(d)})

RuleIndex(rule_id) == CHOOSE k \in DOMAIN rules : rules[k].id = rule_id

\* A magnitude at or above a threshold, low < medium < high
AtOrAbove(magnitude, min_magnitude) ==
    CASE min_magnitude = "low" -> magnitude \in {"low", "medium", "high"}
      [] min_magnitude = "medium" -> magnitude \in {"medium", "high"}
      [] min_magnitude = "high" -> magnitude = "high"

\* Drug d satisfies the pd_overlap predicate of a rule
SatisfiesOverlap(rule, d) ==
    \E i \in DOMAIN facts.pd_effects[d] :
        /\ facts.pd_effects[d][i].effect_id = rule.logic.pd_overlap.effect_id
        /\ "min_magnitude" \in DOMAIN rule.logic.pd_overlap
              => AtOrAbove(facts.pd_effects[d][i].magnitude,
                           rule.logic.pd_overlap.min_magnitude)

\* The guards of a rule hold with drug d as A
GuardsHold(rule, d) ==
    /\ "A_ti" \in DOMAIN rule.logic
          => facts.drugs[d].therapeutic_index = rule.logic.A_ti
    /\ "requires_patient_flag" \in DOMAIN rule.logic
          => /\ rule.logic.requires_patient_flag \in DOMAIN facts.patient_flags
             /\ facts.patient_flags[rule.logic.requires_patient_flag]

HitsOfRuleOnPair(rule_id, x, y) ==
    {i \in DOMAIN hits : /\ hits[i].rule_id = rule_id
                         /\ {hits[i].inputs.A, hits[i].inputs.B} = {x, y}}

\* C8: for a pd_overlap rule and two distinct drugs that both satisfy it and
\* its guards, evaluate_all returns exactly one hit of the rule for the
\* unordered pair, whatever the order of the two in drug_ids; evaluate_rule
\* fires for the order whose A sorts lexically before B and not for the
\* reverse order.
C8_PdSymmetrySuppression ==
    pc = "evaluated" =>
        \A k \in DOMAIN rules : \A x \in GivenDrugs : \A y \in GivenDrugs :
            ( /\ "pd_overlap" \in DOMAIN rules[k].logic
              /\ StrLess(x, y)
              /\ SatisfiesOverlap(rules[k], x) /\ SatisfiesOverlap(rules[k], y)
              /\ GuardsHold(rules[k], x) /\ GuardsHold(rules[k], y) ) =>
                /\ Cardinality(HitsOfRuleOnPair(rules[k].id, x, y)) = 1
                /\ \A i \in HitsOfRuleOnPair(rules[k].id, x, y) :
                      hits[i].inputs.A = x /\ hits[i].inputs.B = y
                /\ evaluate_rule(rules[k], facts, x, y) # <<>>
                /\ evaluate_rule(rules[k], facts, y, x) = <<>>

\* Two drugs given in reverse lexical order both satisfy a PD rule
C8_Witness ==
    /\ pc = "evaluated"
    /\ \E k \in DOMAIN rules : \E x \in GivenDrugs : \E y \in GivenDrugs :
          /\ "pd_overlap" \in DOMAIN rules[k].logic
          /\ "requires_patient_flag" \in DOMAIN rules[k].logic
          /\ StrLess(x, y)
          /\ FirstIndex(y) < FirstIndex(x)
          /\ SatisfiesOverlap(rules[k], x) /\ SatisfiesOverlap(rules[k], y)
          /\ GuardsHold(rules[k], x) /\ GuardsHold(rules[k], y)
          /\ HitsOfRuleOnPair(rules[k].id, x, y) # {}

\* The (rule, A, B) for which evaluate_rule returns a hit, over the ordered
\* pairs of distinct given drugs
Firing ==
    {t \in (DOMAIN rules) \X GivenDrugs \X GivenDrugs :
        t[2] # t[3] /\ evaluate_rule(rules[t[1]], facts, t[2], t[3]) # <<>>}

\* Where a hit stands in the order of evaluation: pair (i < j over the
\* de-duplicated list), then direction, then rule
EvaluationOrder(h) ==
    LET pa == Place(h.inputs.A)
        pb == Place(h.inputs.B)
    IN << IF pa < pb THEN pa ELSE pb,
          IF pa < pb THEN pb ELSE pa,
          IF pa < pb THEN 0 ELSE 1,
          RuleIndex(h.rule_id) >>

RECURSIVE TupleLess(_, _)
TupleLess(s, t) ==
    IF s = <<>> THEN FALSE
    ELSE IF Head(s) # Head(t) THEN Head(s) < Head(t)
    ELSE TupleLess(Tail(s), Tail(t))

\* C9: evaluate_all returns exactly the non-null results of evaluate_rule
\* over every rule and every ordered pair of distinct ids of the
\* de-duplicated drug_ids, both directions tried, no hit with A = B, listed by
\* pair (i < j over the de-duplicated list), then direction (x, y) before
\* (y, x), then rule-list order.
C9_EvaluateAllExact ==
    pc = "evaluated" =>
        /\ Len(hits) = Cardinality(Firing)
        /\ \A t \in Firing :
              \E i \in DOMAIN hits : <<hits[i]>> = evaluate_rule(rules[t[1]], facts, t[2], t[3])
        /\ \A i \in DOMAIN hits : hits[i].inputs.A # hits[i].inputs.B
        /\ \A i \in DOMAIN hits : \A j \in DOMAIN hits :
              i < j => TupleLess(EvaluationOrder(hits[i]), EvaluationOrder(hits[j]))

\* drug_ids repeats an id, and a PK rule fires in both directions of a pair
C9_Witness ==
    /\ pc = "evaluated"
    /\ Cardinality(GivenDrugs) < Len(drug_ids)
    /\ \E i \in DOMAIN hits : \E j \in DOMAIN hits :
          /\ hits[i].domain = "PK"
          /\ hits[i].rule_id = hits[j].rule_id
          /\ hits[i].inputs.A = hits[j].inputs.B
          /\ hits[i].inputs.B = hits[j].inputs.A

ReportHits(r) ==
    {r.pk_hits[i] : i \in DOMAIN r.pk_hits} \cup {r.pd_hits[i] : i \in DOMAIN r.pd_hits}

\* C10: build_pair_reports groups hits by unordered pair: the hits of (x, y)
\* and of (y, x) are in one PairReport, every PairReport has drug_1 < drug_2
\* lexically, there is exactly one report per unordered pair that has a hit
\* and none for a pair without hits.
C10_PairKeyCanonical ==
    pc = "reported" =>
        /\ \A i \in DOMAIN reports : StrLess(reports[i].drug_1, reports[i].drug_2)
        /\ \A i \in DOMAIN reports : \A j \in DOMAIN reports :
              ({reports[i].drug_1, reports[i].drug_2} = {reports[j].drug_1, reports[j].drug_2})
                  => i = j
        /\ {{reports[i].drug_1, reports[i].drug_2} : i \in DOMAIN reports}
              = {{hits[i].inputs.A, hits[i].inputs.B} : i \in DOMAIN hits}
        /\ \A i \in DOMAIN hits : \E j \in DOMAIN reports :
              /\ {reports[j].drug_1, reports[j].drug_2} = {hits[i].inputs.A, hits[i].inputs.B}
              /\ hits[i] \in ReportHits(reports[j])
        /\ \A j \in DOMAIN reports : \A h \in ReportHits(reports[j]) :
              {h.inputs.A, h.inputs.B} = {reports[j].drug_1, reports[j].drug_2}
        /\ hits = <<>> => reports = <<>>

\* A report holding PK hits of both directions, its drugs given in reverse
\* lexical order
C10_Witness ==
    /\ pc = "reported"
    /\ \E j \in DOMAIN reports :
          /\ FirstIndex(reports[j].drug_2) < FirstIndex(reports[j].drug_1)
          /\ \E h \in ReportHits(reports[j]) : h.inputs.A = reports[j].drug_1
          /\ \E h \in ReportHits(reports[j]) : h.inputs.A = reports[j].drug_2
    /\ Len(reports) >= 2

\* The hits of the unordered pair of a report
PairHitsOf(r) ==
    {i \in DOMAIN hits : {hits[i].inputs.A, hits[i].inputs.B} = {r.drug_1, r.drug_2}}

SeverityOrder == <<"info", "caution", "major", "contraindicated">>
ClassOrder == <<"info", "caution", "adjust_monitor", "avoid">>

\* x is ranked at or below y in an order listed from lowest to highest
AtMost(order, x, y) ==
    \E i \in DOMAIN order : \E j \in DOMAIN order : order[i] = x /\ order[j] = y /\ i <= j

\* C11: in every PairReport overall_severity is the highest-ranked severity
\* (info < caution < major < contraindicated) and overall_rule_class the
\* highest-ranked class (info < caution < adjust_monitor < avoid) over all
\* hits of the unordered pair, PK and PD, primitive and composite; no hit
\* listed in pk_hits or pd_hits outranks them.
C11_OverallSeverityClass ==
    pc = "reported" =>
        \A j \in DOMAIN reports :
            LET r == reports[j]
            IN /\ \A i \in PairHitsOf(r) :
                     /\ AtMost(SeverityOrder, hits[i].severity, r.overall_severity)
                     /\ AtMost(ClassOrder, hits[i].rule_class, r.overall_rule_class)
               /\ \E i \in PairHitsOf(r) : hits[i].severity = r.overall_severity
               /\ \E i \in PairHitsOf(r) : hits[i].rule_class = r.overall_rule_class
               /\ \A h \in ReportHits(r) :
                     /\ AtMost(SeverityOrder, h.severity, r.overall_severity)
                     /\ AtMost(ClassOrder, h.rule_class, r.overall_rule_class)

\* A report over PK, PD and composite hits whose severity and class both
\* differ from those of the first hit of the pair
C11_Witness ==
    /\ pc = "reported"
    /\ \E j \in DOMAIN reports :
          LET r == reports[j]
              first == CHOOSE i \in PairHitsOf(r) : \A k \in PairHitsOf(r) : i <= k
          IN /\ hits[first].severity # r.overall_severity
             /\ hits[first].rule_class # r.overall_rule_class
             /\ hits[first].domain = "PD"
             /\ \E i \in PairHitsOf(r) : hits[i].domain = "PK"
             /\ \E i \in PairHitsOf(r) : hits[i].rule_id = "COMP_PK_UP_CNS_DEP"

\* C12: pk_summary of a PairReport, over its de-duplicated PK hits: the mixed
\* label when some PK hit is tagged exposure_increase and some
\* exposure_decrease, exposure_increase when only increase tags occur,
\* exposure_decrease when only decrease tags occur, absent when neither
\* occurs or the pair has no PK hit.
C12_PkSummary ==
    pc = "reported" =>
        \A j \in DOMAIN reports :
            LET r == reports[j]
                up == \E i \in DOMAIN r.pk_hits : "exposure_increase" \in r.pk_hits[i].tags
                down == \E i \in DOMAIN r.pk_hits : "exposure_decrease" \in r.pk_hits[i].tags
            IN /\ (up /\ down) <=>
                     r.pk_summary = "mixed (increase + decrease mechanisms present)"
               /\ (up /\ ~down) <=> r.pk_summary = "exposure_increase"
               /\ (down /\ ~up) <=> r.pk_summary = "exposure_decrease"
               /\ (~up /\ ~down) <=> r.pk_summary = None
               /\ r.pk_hits = <<>> => r.pk_summary = None

\* Two reports at once: one mixed over three or more PK hits, one with
\* decrease tags only
C12_Witness ==
    /\ pc = "reported"
    /\ \E j \in DOMAIN reports :
          /\ reports[j].pk_summary = "mixed (increase + decrease mechanisms present)"
          /\ Len(reports[j].pk_hits) >= 3
    /\ \E j \in DOMAIN reports : reports[j].pk_summary = "exposure_decrease"

\* The drug ids the run was asked to evaluate
Requested == {drug_ids[i] : i \in DOMAIN drug_ids}

\* The enzyme role records of a drug, as a set
EnzymeRecords(d) ==
    IF d \in DOMAIN facts.enzyme_roles
    THEN {facts.enzyme_roles[d][i] : i \in DOMAIN facts.enzyme_roles[d]}
    ELSE {}

\* A record's strength meets the constraint of a logic block: B_strength, or
\* B_strength_in, when the block gives one; a record with no strength meets
\* no constraint
MeetsStrength(r, block) ==
    \/ "B_strength" \notin DOMAIN block /\ "B_strength_in" \notin DOMAIN block
    \/ /\ r.strength # None
       /\ \/ "B_strength" \in DOMAIN block /\ r.strength = block.B_strength
          \/ "B_strength_in" \in DOMAIN block /\ r.strength \in block.B_strength_in

EnzymeRules == {i \in DOMAIN rules : "enzyme" \in DOMAIN rules[i].logic}

TransporterRecords(d) ==
    IF d \in DOMAIN facts.transporter_roles
    THEN {facts.transporter_roles[d][i] : i \in DOMAIN facts.transporter_roles[d]}
    ELSE {}

\* The registry ids whose family is the given one
FamilyIds(family) ==
    {TRANSPORTERS[i].id : i \in {j \in DOMAIN TRANSPORTERS : TRANSPORTERS[j].family = family}}

\* The rules whose logic is a transporter block without a direct id and
\* nothing else
FamilyRules ==
    {i \in DOMAIN rules : /\ DOMAIN rules[i].logic = {"transporter"}
                          /\ "id" \notin DOMAIN rules[i].logic.transporter}

HasHit(rule_id, a, b) ==
    \E k \in DOMAIN hits :
        hits[k].rule_id = rule_id /\ hits[k].inputs.A = a /\ hits[k].inputs.B = b

\* a holds A_role on some id of ids, b holds B_role on some id of ids with
\* the block's strength constraint
HoldsOnAny(block, ids, a, b) ==
    /\ \E r \in TransporterRecords(a) :
          r.transporter_id \in ids /\ r.role = block.A_role
    /\ \E r \in TransporterRecords(b) :
          r.transporter_id \in ids /\ r.role = block.B_role /\ MeetsStrength(r, block)

\* C20: a rule whose transporter block names a family and no id fires for an
\* evaluated (a, b) iff a holds A_role on any registry id of that family and
\* b holds B_role, with the strength constraint, on any registry id of it,
\* the two ids chosen independently; a family with no registry id, or a
\* block with neither id nor family, gives no hit.
C20_TransporterFamily ==
    pc = "evaluated" =>
        \A i \in FamilyRules : \A a \in Requested : \A b \in Requested :
            a # b =>
                LET block == rules[i].logic.transporter
                IN HasHit(rules[i].id, a, b) <=>
                       /\ "family" \in DOMAIN block
                       /\ HoldsOnAny(block, FamilyIds(block.family), a, b)

\* A family rule fired for a pair whose A and B hold their roles on
\* different ids of the family and on no common one, while a pair holding
\* the roles on a registry transporter has no hit of the rule with an
\* unregistered family nor of the rule with neither id nor family
C20_Witness ==
    /\ pc = "evaluated"
    /\ \E i \in FamilyRules : \E a \in Requested : \E b \in Requested :
          LET block == rules[i].logic.transporter
              ids == FamilyIds(block.family)
          IN /\ "family" \in DOMAIN block
             /\ HasHit(rules[i].id, a, b)
             /\ ~\E t \in ids : HoldsOnAny(block, {t}, a, b)
    /\ \E i \in FamilyRules : \E n \in FamilyRules :
       \E a \in Requested : \E b \in Requested :
          LET unregistered == rules[i].logic.transporter
              neither == rules[n].logic.transporter
          IN /\ "family" \in DOMAIN unregistered
             /\ FamilyIds(unregistered.family) = {}
             /\ "family" \notin DOMAIN neither
             /\ a # b
             /\ HoldsOnAny(unregistered, FamilyIds("ABCB1"), a, b)
             /\ ~HasHit(rules[i].id, a, b)
             /\ ~HasHit(rules[n].id, a, b)

TransporterRules == {i \in DOMAIN rules : "transporter" \in DOMAIN rules[i].logic}

\* A single transporter id is involved: the block has a direct id, or its
\* family has exactly one registry id
SingleTransporter(block) ==
    \/ "id" \in DOMAIN block
    \/ "family" \in DOMAIN block /\ Cardinality(FamilyIds(block.family)) = 1

\* C21: a hit of a rule with a transporter block records transporter_id when
\* a single id is involved (direct id, or a family with exactly one registry
\* id) and transporter_family otherwise, and never both.
C21_TransporterInputs ==
    pc = "evaluated" =>
        \A i \in TransporterRules : \A k \in DOMAIN hits :
            hits[k].rule_id = rules[i].id =>
                LET block == rules[i].logic.transporter
                    h == hits[k]
                IN /\ SingleTransporter(block) =>
                         h.inputs.transporter_id # None
                   /\ ~SingleTransporter(block) =>
                         h.inputs.transporter_family # None
                   /\ ~(h.inputs.transporter_id # None
                          /\ h.inputs.transporter_family # None)

\* The PD effect records of a drug, as a set
PdRecords(d) ==
    IF d \in DOMAIN facts.pd_effects
    THEN {facts.pd_effects[d][i] : i \in DOMAIN facts.pd_effects[d]}
    ELSE {}

\* low < medium < high
MagnitudeRank == [low |-> 1, medium |-> 2, high |-> 3]

\* Drug d has the block's effect at or above the block's min_magnitude, any
\* magnitude qualifying when the block gives none
Qualifies(d, block) ==
    \E e \in PdRecords(d) :
        /\ e.effect_id = block.effect_id
        /\ \/ "min_magnitude" \notin DOMAIN block
           \/ MagnitudeRank[e.magnitude] >= MagnitudeRank[block.min_magnitude]

PdRules == {i \in DOMAIN rules : "pd_overlap" \in DOMAIN rules[i].logic}

\* C22: a pd_overlap rule has a hit for (a, b) only if both a and b have a
\* record of the rule's effect at or above min_magnitude (low < medium <
\* high), any magnitude qualifying without a min_magnitude.
C22_PdMagnitudeThreshold ==
    pc = "evaluated" =>
        \A i \in PdRules : \A k \in DOMAIN hits :
            hits[k].rule_id = rules[i].id =>
                /\ Qualifies(hits[k].inputs.A, rules[i].logic.pd_overlap)
                /\ Qualifies(hits[k].inputs.B, rules[i].logic.pd_overlap)

\* A rule with a threshold fired for one pair and not for an evaluated pair
\* one of whose drugs has the effect below the threshold only, while a rule
\* without threshold fired for a pair with such a drug
C22_Witness ==
    /\ pc = "evaluated"
    /\ \E i \in PdRules : \E n \in PdRules :
       \E a \in Requested : \E b \in Requested :
          LET block == rules[i].logic.pd_overlap
              free == rules[n].logic.pd_overlap
          IN /\ "min_magnitude" \in DOMAIN block
             /\ "min_magnitude" \notin DOMAIN free
             /\ free.effect_id = block.effect_id
             /\ \E k \in DOMAIN hits : hits[k].rule_id = rules[i].id
             /\ Qualifies(a, block)
             /\ Qualifies(b, free) /\ ~Qualifies(b, block)
             /\ ~HasHit(rules[i].id, a, b) /\ ~HasHit(rules[i].id, b, a)
             /\ HasHit(rules[n].id, a, b) \/ HasHit(rules[n].id, b, a)

\* C23: a hit exists only if every guard of the rule's logic holds: A_ti
\* equals the therapeutic index of the hit's A, and the flag named by
\* requires_patient_flag is present in Facts.patient_flags and true.
C23_Guards ==
    pc = "evaluated" =>
        \A i \in DOMAIN rules : \A k \in DOMAIN hits :
            hits[k].rule_id = rules[i].id =>
                LET L == rules[i].logic
                    a == hits[k].inputs.A
                IN /\ "A_ti" \in DOMAIN L =>
                         /\ a \in DOMAIN facts.drugs
                         /\ facts.drugs[a].therapeutic_index = L.A_ti
                   /\ "requires_patient_flag" \in DOMAIN L =>
                         /\ L.requires_patient_flag \in DOMAIN facts.patient_flags
                         /\ facts.patient_flags[L.requires_patient_flag]

\* Evaluation completed where a rule with A_ti fired for one pair and not
\* for a pair that meets its enzyme block and whose B, not A, has the index;
\* a rule whose flag is set fired; and a rule whose flag is not among the
\* patient flags has no hit although a rule with the same pd_overlap block
\* and no guard fired
C23_Witness ==
    /\ pc = "evaluated"
    /\ \E i \in EnzymeRules : \E a \in Requested : \E b \in Requested :
          LET L == rules[i].logic
          IN /\ "A_ti" \in DOMAIN L
             /\ \E k \in DOMAIN hits : hits[k].rule_id = rules[i].id
             /\ a # b
             /\ \E r \in EnzymeRecords(a) :
                   r.enzyme_id = L.enzyme.id /\ r.role = L.enzyme.A_role
             /\ \E r \in EnzymeRecords(b) :
                   /\ r.enzyme_id = L.enzyme.id
                   /\ r.role = L.enzyme.B_role
                   /\ MeetsStrength(r, L.enzyme)
             /\ facts.drugs[a].therapeutic_index # L.A_ti
             /\ facts.drugs[b].therapeutic_index = L.A_ti
             /\ ~HasHit(rules[i].id, a, b)
    /\ \E i \in PdRules : \E n \in PdRules : \E m \in PdRules :
          /\ "requires_patient_flag" \in DOMAIN rules[i].logic
          /\ \E k \in DOMAIN hits : hits[k].rule_id = rules[i].id
          /\ "requires_patient_flag" \in DOMAIN rules[n].logic
          /\ rules[n].logic.requires_patient_flag \notin DOMAIN facts.patient_flags
          /\ DOMAIN rules[m].logic = {"pd_overlap"}
          /\ rules[m].logic.pd_overlap = rules[n].logic.pd_overlap
          /\ \E k \in DOMAIN hits : hits[k].rule_id = rules[m].id
          /\ \A k \in DOMAIN hits : hits[k].rule_id # rules[n].id

-----------------------------------------------------------------------------
(* Properties of the reports built from a given hit list, over SpecReport    *)

\* (rule_id, A, B, domain) of a hit
KeyOf(h) == <<h.rule_id, h.inputs.A, h.inputs.B, h.domain>>

\* The input hits of a report: those of its unordered pair, by place
InputOf(r) == {i \in DOMAIN hits : {hits[i].inputs.A, hits[i].inputs.B} = {r.drug_1, r.drug_2}}

ReportLists(r) == {r.pk_hits, r.pd_hits}

\* C24: within each PairReport no two hits of pk_hits (nor of pd_hits) share
\* the key (rule_id, A, B, domain); a reported hit is the first input hit of
\* its key; every key among the pair's input hits appears in the report, so
\* two PK hits of one rule with A and B swapped are both kept.
C24_ReportDedupe ==
    pc = "built" =>
        \A j \in DOMAIN reports :
            LET r == reports[j]
                first(key) == CHOOSE i \in InputOf(r) :
                                 /\ KeyOf(hits[i]) = key
                                 /\ \A k \in InputOf(r) : KeyOf(hits[k]) = key => i <= k
            IN /\ \A list \in ReportLists(r) :
                     \A i \in DOMAIN list : \A k \in DOMAIN list :
                         KeyOf(list[i]) = KeyOf(list[k]) => i = k
               /\ \A list \in ReportLists(r) : \A i \in DOMAIN list :
                     list[i] = hits[first(KeyOf(list[i]))]
               /\ \A i \in InputOf(r) :
                     \E list \in ReportLists(r) : \E k \in DOMAIN list :
                         /\ KeyOf(list[k]) = KeyOf(hits[i])
                         /\ list[k].domain = IF list = r.pk_hits THEN "PK" ELSE "PD"

\* Reports built from a list whose first two hits share a key and differ in
\* severity and whose third is the same rule with A and B swapped
C24_Witness ==
    /\ pc = "built"
    /\ Len(hits) = 3
    /\ KeyOf(hits[1]) = KeyOf(hits[2]) /\ hits[1].severity # hits[2].severity
    /\ hits[3].rule_id = hits[1].rule_id
    /\ hits[3].inputs.A = hits[1].inputs.B /\ hits[3].inputs.B = hits[1].inputs.A
    /\ Len(reports) = 1 /\ Len(reports[1].pk_hits) = 2

\* s sorts at or before t
StrAtMost(s, t) == s = t \/ StrLess(s, t)

\* x has a severity ranked strictly above that of y
Severer(x, y) == x # y /\ AtMost(SeverityOrder, y, x)

\* C25: pk_hits and pd_hits of every PairReport are each sorted by
\* descending severity rank (contraindicated, major, caution, info) and,
\* among equal severities, by ascending rule id.
C25_HitOrder ==
    pc = "built" =>
        \A j \in DOMAIN reports : \A list \in ReportLists(reports[j]) :
            \A i \in DOMAIN list : \A k \in DOMAIN list :
                i < k =>
                    \/ Severer(list[i].severity, list[k].severity)
                    \/ /\ list[i].severity = list[k].severity
                       /\ StrAtMost(list[i].rule_id, list[k].rule_id)

\* Three PK hits of one pair given in the reverse of their reported order:
\* the least severe first, and of the two equally severe ones the one with
\* the later rule id first
C25_Witness ==
    /\ pc = "built"
    /\ Len(hits) = 3 /\ Len(reports) = 1 /\ Len(reports[1].pk_hits) = 3
    /\ reports[1].pk_hits = <<hits[3], hits[2], hits[1]>>
    /\ hits[1].severity # hits[2].severity
    /\ hits[2].severity = hits[3].severity
    /\ hits[2].rule_id # hits[3].rule_id

\* The sequences with the entries of hs in every order
Reorderings(hs) ==
    {[i \in DOMAIN hs |-> hs[f[i]]] :
        f \in {g \in [DOMAIN hs -> DOMAIN hs] :
                  \A i \in DOMAIN hs : \A k \in DOMAIN hs : g[i] = g[k] => i = k}}

\* The pair and overall severity of each report, in report order
Outline(rs) ==
    [j \in DOMAIN rs |-> <<rs[j].drug_1, rs[j].drug_2, rs[j].overall_severity>>]

\* C26: the reports are sorted by descending overall severity rank, then
\* ascending drug_1, then ascending drug_2, and so every order of the input
\* hits gives the same reports in the same order.
C26_ReportOrder ==
    pc = "built" =>
        /\ \A j \in DOMAIN reports : \A k \in DOMAIN reports :
              j < k =>
                  \/ Severer(reports[j].overall_severity, reports[k].overall_severity)
                  \/ /\ reports[j].overall_severity = reports[k].overall_severity
                     /\ \/ StrLess(reports[j].drug_1, reports[k].drug_1)
                        \/ /\ reports[j].drug_1 = reports[k].drug_1
                           /\ StrLess(reports[j].drug_2, reports[k].drug_2)
        /\ \A other \in Reorderings(hits) :
              Outline(build_pair_reports(facts, other)) = Outline(reports)

\* Three reports in the reverse of the order in which their pairs first
\* appear among the hits, the last two of equal overall severity
C26_Witness ==
    /\ pc = "built"
    /\ Len(hits) = 3 /\ Len(reports) = 3
    /\ {hits[1].inputs.A, hits[1].inputs.B} = {reports[3].drug_1, reports[3].drug_2}
    /\ {hits[3].inputs.A, hits[3].inputs.B} = {reports[1].drug_1, reports[1].drug_2}
    /\ reports[2].overall_severity = reports[3].overall_severity
    /\ reports[1].overall_severity # reports[2].overall_severity

-----------------------------------------------------------------------------
(* Properties of the domain selection, over SpecSelect *)

\* The enzyme and transporter ids and families by the tag the documentation
\* gives them
CypEnzymes == {"CYP3A4"}
UgtEnzymes == {"UGT1A1"}
PgpTransporters == {"P-gp", "ABCB1"}
BcrpTransporters == {"BCRP", "ABCG2"}
OatpTransporters == {"OATP", "OATP1B1", "OATP1B3", "OATP2B1"}

NamedBy(block) ==
    (IF "id" \in DOMAIN block THEN {block.id} ELSE {})
        \cup (IF "family" \in DOMAIN block THEN {block.family} ELSE {})

\* The tag the documentation gives each predicate block of a logic block
DocumentedTags(L) ==
    (IF "enzyme" \notin DOMAIN L THEN {}
     ELSE IF L.enzyme.id \in CypEnzymes THEN {"cyp"}
     ELSE IF L.enzyme.id \in UgtEnzymes THEN {"ugt"}
     ELSE {"enzyme"})
    \cup
    (IF "transporter" \notin DOMAIN L THEN {}
     ELSE IF NamedBy(L.transporter) \cap PgpTransporters # {} THEN {"pgp"}
     ELSE IF NamedBy(L.transporter) \cap BcrpTransporters # {} THEN {"bcrp"}
     ELSE IF NamedBy(L.transporter) \cap OatpTransporters # {} THEN {"oatp"}
     ELSE {"transporter"})
    \cup
    (IF "pd_overlap" \in DOMAIN L THEN {"pd"} ELSE {})

PredicateBlocks(L) == DOMAIN L \cap {"enzyme", "transporter", "pd_overlap"}

\* C27: rule_mechanisms gives one tag per predicate block of the rule's
\* logic: cyp / ugt / enzyme for an enzyme block, pgp / bcrp / oatp /
\* transporter for a transporter block, pd for a pd_overlap block, and no
\* tag for a rule without predicate block.
C27_RuleMechanisms ==
    pc = "filtered" =>
        \A i \in DOMAIN rules_all :
            LET L == rules_all[i].logic
                tags == {rule_mechs[i][k] : k \in DOMAIN rule_mechs[i]}
            IN /\ tags = DocumentedTags(L)
               /\ Len(rule_mechs[i]) = Cardinality(PredicateBlocks(L))

\* The filter has tagged a rule with three predicate blocks and a rule with
\* none
C27_Witness ==
    /\ pc = "filtered"
    /\ \E i \in DOMAIN rules_all : Len(rule_mechs[i]) = 3
    /\ \E i \in DOMAIN rules_all : rule_mechs[i] = <<>>

\* The arguments that stand for the selection 'all': the argument itself,
\* the argument not given, and the arguments that select nothing
AllArgs == {<<>>, Chars("all"), <<" ", "A", "l", "l", " ">>, <<",">>, <<" ">>}

\* The rules of a list that satisfy a test, in their order
Those(rs, keep) == [k \in DOMAIN keep |-> rs[keep[k]]]

RECURSIVE Ascending(_, _)
Ascending(S, acc) ==
    IF S = {} THEN acc
    ELSE LET least == CHOOSE i \in S : \A k \in S : i <= k
         IN Ascending(S \ {least}, Append(acc, least))

\* C30: with the selection 'all' (the default and an empty selection
\* included) the filter keeps every loaded rule that has a predicate block;
\* with any selection it keeps exactly the rules whose mechanism tags
\* intersect the selection, in their original order.
C30_DefaultSelectionLosesNoRule ==
    pc = "filtered" =>
        LET chosen == {selected[k] : k \in DOMAIN selected}
            tagged == {i \in DOMAIN rules_all :
                          DocumentedTags(rules_all[i].logic) \cap chosen # {}}
            with_block == {i \in DOMAIN rules_all :
                              PredicateBlocks(rules_all[i].logic) # {}}
        IN /\ rules = Those(rules_all, Ascending(tagged, <<>>))
           /\ domain_arg \in AllArgs =>
                 rules = Those(rules_all, Ascending(with_block, <<>>))

\* The (rule_id, A, B) triples of a hit list
Triples(hs) == {<<hs[i].rule_id, hs[i].inputs.A, hs[i].inputs.B>> : i \in DOMAIN hs}

\* C28: for the rules and facts of the run, evaluate_all over every
\* reordering of drug_ids returns hits with the same (rule_id, A, B) triples,
\* and the pair reports built from them have the same pairs, overall
\* severities and order.
C28_OrderIndependence ==
    /\ pc = "evaluated" =>
          \A other \in Reorderings(drug_ids) :
              Triples(evaluate_all(rules, facts, other)) = Triples(hits)
    /\ (pc = "reported" /\ last_op = "evaluate_all") =>
          \A other \in Reorderings(drug_ids) :
              Outline(build_pair_reports(facts, evaluate_all(rules, facts, other)))
                  = Outline(reports)

\* Reports built from the hits of three drugs, PD and PK hits among them,
\* where another order of the drugs gives the hits in another order
C28_Witness ==
    /\ pc = "reported" /\ last_op = "evaluate_all"
    /\ Cardinality(Requested) = 3
    /\ Len(reports) >= 2
    /\ \E i \in DOMAIN hits : hits[i].domain = "PD"
    /\ \E i \in DOMAIN hits : hits[i].domain = "PK"
    /\ \E other \in Reorderings(drug_ids) : evaluate_all(rules, facts, other) # hits

-----------------------------------------------------------------------------
(* Re-invocation of a derivation on a list that grew, over SpecDerive *)

\* C29: after the derivation is applied again to a list that already went
\* through it and then received further primitive hits, every
\* multi-mechanism composite of a pair (A, B) has a severity and a rule class
\* at least as high as every PK exposure_increase hit of (A, B) in the list.
C29_CompositesStayCurrent ==
    ( /\ derivation \in {"apply_pk_multi_mechanism_exposure_increase", "apply_composites"}
      /\ JustCalled
      /\ n_calls >= 2 ) =>
        \A p \in CausalPairs : \A i \in DOMAIN hits : \A k \in PkUpOf(hits, p[1], p[2]) :
            IsMultiComposite(hits[i], p[1], p[2]) =>
                /\ AtMost(SeverityOrder, hits[k].severity, hits[i].severity)
                /\ AtMost(ClassOrder, hits[k].rule_class, hits[i].rule_class)

\* C17: in every PairReport built from the output of evaluate_all followed
\* by apply_composites, pd_hits holds at most one hit per rule_id: no PD hit,
\* the composite COMP_PK_UP_CNS_DEP included, appears once for (x, y) and
\* once for (y, x).
C17_PdHitsUniquePerPair ==
    (pc = "reported" /\ last_op = "apply_composites") =>
        \A j \in DOMAIN reports :
            \A i \in DOMAIN reports[j].pd_hits : \A k \in DOMAIN reports[j].pd_hits :
                reports[j].pd_hits[i].rule_id = reports[j].pd_hits[k].rule_id => i = k

-----------------------------------------------------------------------------
(* Properties of rule loading and of the evaluation boundary, over SpecLoad *)

PatternKeys == {"enzyme", "transporter", "pd_overlap"}

\* A definition that lacks a required field or has a value outside the
\* permitted enumerations
Defective(raw) ==
    \/ \E key \in {"id", "name", "domain", "severity", "logic", "explanation_template"} :
          key \notin DOMAIN raw
    \/ "domain" \in DOMAIN raw /\ raw["domain"] \notin {"PK", "PD"}
    \/ "severity" \in DOMAIN raw
          /\ raw["severity"] \notin {"info", "caution", "major", "contraindicated"}
    \/ "rule_class" \in DOMAIN raw
          /\ raw["rule_class"] \notin {"info", "caution", "adjust_monitor", "avoid"}

\* C13: load_rules fails with a load error, returning no rule list, whenever
\* a rule definition lacks one of id, name, domain, severity, logic,
\* explanation_template or has a domain, severity or rule_class outside the
\* permitted enumerations.
C13_LoadRulesRejects ==
    (pc # "files" /\ \E n \in DOMAIN rule_files : Defective(rule_files[n])) =>
        /\ pc = "load_failed"
        /\ load_error # NoError
        /\ rules = <<>>

\* C14: every hit of evaluate_all has inputs A and B that are keys of
\* Facts.drugs, and an evaluation over drug_ids holding an id that is not a
\* key of Facts.drugs fails instead of completing.
C14_FailFastUnknownDrug ==
    pc = "evaluated" =>
        /\ \A i \in DOMAIN hits :
              hits[i].inputs.A \in DOMAIN facts.drugs /\ hits[i].inputs.B \in DOMAIN facts.drugs
        /\ \A i \in DOMAIN drug_ids : drug_ids[i] \in DOMAIN facts.drugs

\* C15: every rule that is loaded and evaluated has a logic block with
\* exactly one of the keys enzyme, transporter, pd_overlap; a definition with
\* none or several of them gets an error from validate_rule and does not
\* become a loaded rule.
C15_LogicExactlyOnePattern ==
    /\ pc \in {"loaded", "evaluated"} =>
          \A k \in DOMAIN rules : Cardinality(PatternKeys \cap DOMAIN rules[k].logic) = 1
    /\ rule_errors # NotValidated =>
          \A n \in DOMAIN rule_files :
              ( /\ "logic" \in DOMAIN rule_files[n]
                /\ Cardinality(PatternKeys \cap DOMAIN rule_files[n]["logic"]) # 1 ) =>
                    \E i \in DOMAIN rule_errors : rule_errors[i].file = n

=============================================================================
